---- MODULE Spec2Model ----
(***************************************************************************)
(* State-machine model of the myCache engines: LRUCache, LFUCache and      *)
(* ArcCache (ArcLruPart + ArcLfuPart).  One engine is constructed in Init  *)
(* (variable engine); every public operation is one action.                *)
(***************************************************************************)
EXTENDS Integers, Sequences, FiniteSets, TLC

\* ------------------------------------------------------------------ bounds
NumKeys == 3
NumVals == 2
MaxCap == 2
MaxFreq == 4
MaxAvg == 2
MaxAvgOne == 4
ArcMaxCap == 2
ArcMaxCount == 2
MaxOrphans == 1
MaxK == 2
MaxGarbage == 1
LrukMaxCap == 1
MaxHistory == 2
MaxSlices == 2
HashMaxCap == 2
NumThreads == 2
MaxCalls == 3
NumThreadKeys == 2
MaxLrukCalls == 2
MaxThreshold == 3

\* ------------------------------------------------------- program constants
INT_MAX == 2147483647
DefaultKey == 0
DefaultValue == 0
DefaultMaxAverageNum == 10

Keys == 0 .. (NumKeys - 1)
Values == 1 .. NumVals
Capacities == 0 .. MaxCap
MaxAverageNums == 2 .. MaxAvg
LfuConfigs ==
  (Capacities \X MaxAverageNums) \cup ({1} \X (2 .. MaxAvgOne))
ArcCapacities == 0 .. ArcMaxCap
TransformThresholds == 1 .. MaxThreshold
MaxLongFreq == 11
MaxRefFreq == 3

MaxTotal == MaxFreq * MaxCap

VARIABLES engine, lru, lfu, arc, last, lastPut, recency, lruk, callsOn, shards,
          pc, held, lin, started

vars == <<engine, lru, lfu, arc, last, lastPut, recency, lruk, callsOn, shards,
          pc, held, lin, started>>

\* ----------------------------------------------------------------- helpers
Range(s) == {s[i] : i \in 1 .. Len(s)}

Without(s, k) == SelectSeq(s, LAMBDA x : x # k)

Drop(f, k) == [x \in (DOMAIN f) \ {k} |-> f[x]]

Put(f, k, n) == [x \in (DOMAIN f) \cup {k} |-> IF x = k THEN n ELSE f[x]]

EmptyMap == [x \in {} |-> 0]

Min(S) == CHOOSE x \in S : \A y \in S : x <= y

\* All iteration orders a hash map holding the keys S may have.
Orders(S) ==
  {p \in [1 .. Cardinality(S) -> S] : \A i, j \in 1 .. Cardinality(S) : i # j => p[i] # p[j]}

\* ===================================================================== LRU
\* lru = [capacity, nodeMap : key -> [value, accessCount], list : keys from
\* _head (stale end) to _tail (fresh end)].

LruNew(capacity) == [capacity |-> capacity, nodeMap |-> EmptyMap, list |-> <<>>]

LruRemoveNode(c, key) == [c EXCEPT !.list = Without(c.list, key)]

LruInsertNode(c, key) == [c EXCEPT !.list = Append(c.list, key)]

LruMoveToMostRecent(c, key) == LruInsertNode(LruRemoveNode(c, key), key)

\* Mutant of LruUpdateExistringNode: the stored value is not overwritten.
LruUpdateExistringNodeKeepsValue(c, key, value) == LruMoveToMostRecent(c, key)

LruUpdateExistringNode(c, key, value) ==
  LruMoveToMostRecent([c EXCEPT !.nodeMap[key].value = value], key)

\* _head->_next is the _tail sentinel when the list is empty: removeNode is
\* then a no-op and the sentinel's default key is erased from the map.
LruEvictLeastRecent(c) ==
  IF c.list = <<>>
  THEN [c EXCEPT !.nodeMap = Drop(c.nodeMap, DefaultKey)]
  ELSE LET leastRecent == Head(c.list)
       IN  [LruRemoveNode(c, leastRecent) EXCEPT !.nodeMap = Drop(c.nodeMap, leastRecent)]

\* Mutant of LruAddNewNode: nothing is evicted.
LruAddNewNodeNoEvict(c, key, value) ==
  LruInsertNode(
    [c EXCEPT !.nodeMap = Put(c.nodeMap, key, [value |-> value, accessCount |-> 1])],
    key)

LruAddNewNode(c, key, value) ==
  LET d == IF Cardinality(DOMAIN c.nodeMap) >= c.capacity
           THEN LruEvictLeastRecent(c) ELSE c
  IN  LruInsertNode(
        [d EXCEPT !.nodeMap = Put(d.nodeMap, key, [value |-> value, accessCount |-> 1])],
        key)

\* Mutant of LruPut: no check of the capacity.
LruPutUnchecked(c, key, value) ==
  IF key \in DOMAIN c.nodeMap
  THEN LruUpdateExistringNode(c, key, value)
  ELSE LruAddNewNode(c, key, value)

LruPut(c, key, value) ==
  IF c.capacity <= 0 THEN c
  ELSE IF key \in DOMAIN c.nodeMap
       THEN LruUpdateExistringNode(c, key, value)
       ELSE LruAddNewNode(c, key, value)

\* Mutant of LruGet: a hit does not refresh the node's position.
LruGetNoRefresh(c, key, value) ==
  IF key \in DOMAIN c.nodeMap
  THEN [c |-> c, ret |-> TRUE, value |-> c.nodeMap[key].value]
  ELSE [c |-> c, ret |-> FALSE, value |-> value]

\* get(key, value&): the result carries the return code and the out-parameter.
LruGet(c, key, value) ==
  IF key \in DOMAIN c.nodeMap
  THEN [c |-> LruMoveToMostRecent(c, key), ret |-> TRUE, value |-> c.nodeMap[key].value]
  ELSE [c |-> c, ret |-> FALSE, value |-> value]

\* Mutant of LruRemove: the map entry is erased but the node stays linked.
LruRemoveKeepsLink(c, key) ==
  IF key \in DOMAIN c.nodeMap THEN [c EXCEPT !.nodeMap = Drop(c.nodeMap, key)] ELSE c

LruRemove(c, key) ==
  IF key \in DOMAIN c.nodeMap
  THEN [LruRemoveNode(c, key) EXCEPT !.nodeMap = Drop(c.nodeMap, key)]
  ELSE c

\* ===================================================================== LFU
\* lfu = [capacity, minFreq, maxAverageNum, curAverageNum, curTotalNum,
\*        nodeMap : key -> [value, freq],
\*        freqToFreqList : freq -> keys from _head (oldest) to _tail,
\*        crashed : a null FreqList pointer was dereferenced].

LfuNew(capacity, maxAverageNum) ==
  [capacity |-> capacity, minFreq |-> INT_MAX, maxAverageNum |-> maxAverageNum,
   curAverageNum |-> 0, curTotalNum |-> 0, nodeMap |-> EmptyMap,
   freqToFreqList |-> EmptyMap, crashed |-> FALSE]

\* int / size_t: the int is converted to a 64-bit unsigned, divided, and the
\* quotient is narrowed to int.  For t < 0 the dividend is 2^64 + t, written
\* in base 2^16 and divided digit by digit.
Base16 == 65536

UDivDigits(t) == <<Base16 - 1, Base16 - 1, Base16 - 1, Base16 + t>>

RECURSIVE UDivLong(_, _, _, _)
UDivLong(digits, n, i, r) ==
  IF i > Len(digits) THEN <<>>
  ELSE LET cur == r * Base16 + digits[i]
       IN  <<cur \div n>> \o UDivLong(digits, n, i + 1, cur % n)

IntDivSize(t, n) ==
  IF t >= 0 THEN t \div n
  ELSE LET q == UDivLong(UDivDigits(t), n, 1, 0)
           hi == IF q[3] >= Base16 \div 2 THEN q[3] - Base16 ELSE q[3]
       IN  hi * Base16 + q[4]

\* int / int truncates toward zero.
IntDiv(a, b) == IF a >= 0 THEN a \div b ELSE -((-a) \div b)

LfuIsEmpty(c, freq) == c.freqToFreqList[freq] = <<>>

LfuRemoveFromFreqList(c, key) ==
  LET f == c.nodeMap[key].freq
  IN  [c EXCEPT !.freqToFreqList[f] = Without(c.freqToFreqList[f], key)]

LfuAddToFreqList(c, key) ==
  LET f == c.nodeMap[key].freq
      cur == IF f \in DOMAIN c.freqToFreqList THEN c.freqToFreqList[f] ELSE <<>>
  IN  [c EXCEPT !.freqToFreqList = Put(c.freqToFreqList, f, Append(cur, key))]

\* Mutant of LfuUpdateMinFreq: _minFreq is reset to 1 without a scan.
LfuUpdateMinFreqAsOne(c) == [c EXCEPT !.minFreq = 1]

LfuUpdateMinFreq(c) ==
  LET ne == {f \in DOMAIN c.freqToFreqList : c.freqToFreqList[f] # <<>>}
  IN  [c EXCEPT !.minFreq = IF ne = {} THEN 1 ELSE Min(ne)]

\* One pass over _nodeMap in its iteration order: order restricted to the
\* resident keys.
\* Mutant of LfuAgeNodes: the whole of maxAverageNum is subtracted.
RECURSIVE LfuAgeNodesFull(_, _, _)
LfuAgeNodesFull(c, order, i) ==
  IF i > Len(order) THEN c
  ELSE LET key == order[i]
           d == LfuRemoveFromFreqList(c, key)
           nf == d.nodeMap[key].freq - c.maxAverageNum
           e == [d EXCEPT !.nodeMap[key].freq = IF nf < 1 THEN 1 ELSE nf]
       IN  LfuAgeNodesFull(LfuAddToFreqList(e, key), order, i + 1)

RECURSIVE LfuAgeNodes(_, _, _)
LfuAgeNodes(c, order, i) ==
  IF i > Len(order) THEN c
  ELSE LET key == order[i]
           d == LfuRemoveFromFreqList(c, key)
           nf == d.nodeMap[key].freq - (c.maxAverageNum \div 2)
           e == [d EXCEPT !.nodeMap[key].freq = IF nf < 1 THEN 1 ELSE nf]
       IN  LfuAgeNodes(LfuAddToFreqList(e, key), order, i + 1)

LfuHandleOverMaxAverageNum(c, order) ==
  IF DOMAIN c.nodeMap = {} THEN c
  ELSE LET it == SelectSeq(order, LAMBDA k : k \in DOMAIN c.nodeMap)
           cnt == Len(it)
           d == LfuAgeNodes(c, it, 1)
           total == d.curTotalNum - (d.maxAverageNum \div 2) * cnt
       IN  LfuUpdateMinFreq([d EXCEPT !.curTotalNum = total,
                                      !.curAverageNum = IntDiv(total, cnt)])

LfuAddFreqNum(c, order) ==
  LET total == c.curTotalNum + 1
      avg == IF DOMAIN c.nodeMap = {} THEN 0
             ELSE IntDivSize(total, Cardinality(DOMAIN c.nodeMap))
      d == [c EXCEPT !.curTotalNum = total, !.curAverageNum = avg]
  IN  IF avg > c.maxAverageNum THEN LfuHandleOverMaxAverageNum(d, order) ELSE d

LfuDecreaseFreqNum(c, num) ==
  LET total == c.curTotalNum - num
      avg == IF DOMAIN c.nodeMap = {} THEN 0
             ELSE IntDivSize(total, Cardinality(DOMAIN c.nodeMap))
  IN  [c EXCEPT !.curTotalNum = total, !.curAverageNum = avg]

\* Mutant of LfuKickOut: the victim is unlinked but stays in _nodeMap.
LfuKickOutKeepsMap(c) ==
  IF c.minFreq \notin DOMAIN c.freqToFreqList \/ LfuIsEmpty(c, c.minFreq) THEN c
  ELSE LET key == Head(c.freqToFreqList[c.minFreq])
       IN  LfuDecreaseFreqNum(
             [c EXCEPT !.freqToFreqList[c.minFreq] = Tail(@)], c.nodeMap[key].freq)

\* _freqToFreqList[_minFreq] on a missing bucket yields a null pointer (the
\* dereference is undefined behaviour: crashed); on an empty bucket
\* getFirstNode() is the _tail sentinel (freq 1, default key).
LfuKickOut(c) ==
  IF c.minFreq \notin DOMAIN c.freqToFreqList
  THEN [c EXCEPT !.crashed = TRUE]
  ELSE IF LfuIsEmpty(c, c.minFreq)
  THEN LfuDecreaseFreqNum([c EXCEPT !.nodeMap = Drop(c.nodeMap, DefaultKey)], 1)
  ELSE LET key == Head(c.freqToFreqList[c.minFreq])
           decreaseNum == c.nodeMap[key].freq
           d == LfuRemoveFromFreqList(c, key)
       IN  LfuDecreaseFreqNum([d EXCEPT !.nodeMap = Drop(d.nodeMap, key)], decreaseNum)

LfuPutInternal(c, key, value, order) ==
  LET d == IF Cardinality(DOMAIN c.nodeMap) = c.capacity THEN LfuKickOut(c) ELSE c
      e == [d EXCEPT !.nodeMap = Put(d.nodeMap, key, [value |-> value, freq |-> 1])]
      g == LfuAddFreqNum(LfuAddToFreqList(e, key), order)
  IN  IF d.crashed THEN d ELSE [g EXCEPT !.minFreq = 1]

\* Mutant of LfuGetInternal: _minFreq is not advanced when its bucket empties.
LfuGetInternalStaleMin(c, key, order) ==
  LET d == LfuRemoveFromFreqList(c, key)
      e == LfuAddToFreqList([d EXCEPT !.nodeMap[key].freq = @ + 1], key)
  IN  [c |-> LfuAddFreqNum(e, order), value |-> c.nodeMap[key].value]

LfuGetInternal(c, key, order) ==
  LET d == LfuRemoveFromFreqList(c, key)
      e == LfuAddToFreqList([d EXCEPT !.nodeMap[key].freq = @ + 1], key)
      f == e.nodeMap[key].freq
      g == IF e.minFreq = f - 1 /\ LfuIsEmpty(e, f - 1)
           THEN [e EXCEPT !.minFreq = @ + 1] ELSE e
  IN  [c |-> LfuAddFreqNum(g, order), value |-> c.nodeMap[key].value]

LfuPut(c, key, value, order) ==
  IF c.capacity = 0 THEN c
  ELSE IF key \in DOMAIN c.nodeMap
       THEN LfuGetInternal([c EXCEPT !.nodeMap[key].value = value], key, order).c
       ELSE LfuPutInternal(c, key, value, order)

\* Mutant of LfuGet: a miss is counted as an access.
LfuGetCountsMisses(c, key, value, order) ==
  IF key \in DOMAIN c.nodeMap
  THEN LET r == LfuGetInternal(c, key, order)
       IN  [c |-> r.c, ret |-> TRUE, value |-> r.value]
  ELSE [c |-> LfuAddFreqNum(c, order), ret |-> FALSE, value |-> value]

LfuGet(c, key, value, order) ==
  IF key \in DOMAIN c.nodeMap
  THEN LET r == LfuGetInternal(c, key, order)
       IN  [c |-> r.c, ret |-> TRUE, value |-> r.value]
  ELSE [c |-> c, ret |-> FALSE, value |-> value]

LfuPurge(c) == [c EXCEPT !.nodeMap = EmptyMap, !.freqToFreqList = EmptyMap]

\* ===================================================================== ARC
\* A ghost list is the sequence of its linked nodes from the head sentinel to
\* the tail sentinel; a node is [key, accessCount, mapped], mapped telling
\* whether the ghost hash map's entry for the key points to this node.
DefaultTransformThreshold == 2

RemoveAt(s, i) == SubSeq(s, 1, i - 1) \o SubSeq(s, i + 1, Len(s))

GhostKeys(g) == {g[i].key : i \in {j \in 1 .. Len(g) : g[j].mapped}}

GhostSize(g) == Cardinality(GhostKeys(g))

GhostIndex(g, key) == CHOOSE i \in 1 .. Len(g) : g[i].key = key /\ g[i].mapped

\* _ghostCache.erase(key): no node of that key stays mapped.
GhostErase(g, key) ==
  [i \in 1 .. Len(g) |-> IF g[i].key = key THEN [g[i] EXCEPT !.mapped = FALSE] ELSE g[i]]

\* ------------------------------------------------------------- ArcLruPart
\* [capacity, ghostCapacity, transformThreshold,
\*  mainCache : key -> [value, accessCount],
\*  mainList : keys from _mainHead (most recent) to _mainTail, ghostList].

AlpNew(capacity, transformThreshold) ==
  [capacity |-> capacity, ghostCapacity |-> capacity,
   transformThreshold |-> transformThreshold,
   mainCache |-> EmptyMap, mainList |-> <<>>, ghostList |-> <<>>]

AlpRemoveFromMain(p, key) == [p EXCEPT !.mainList = Without(p.mainList, key)]

AlpAddToFront(p, key) == [p EXCEPT !.mainList = <<key>> \o p.mainList]

AlpMoveToFront(p, key) == AlpAddToFront(AlpRemoveFromMain(p, key), key)

AlpAddToGhost(p, key) ==
  [p EXCEPT !.ghostList =
     <<[key |-> key, accessCount |-> 1, mapped |-> TRUE]>> \o GhostErase(p.ghostList, key)]

AlpRemoveOldestGhost(p) ==
  IF p.ghostList = <<>> THEN p
  ELSE LET n == Len(p.ghostList)
           leastRecent == p.ghostList[n]
       IN  [p EXCEPT !.ghostList = GhostErase(RemoveAt(p.ghostList, n), leastRecent.key)]

AlpEvictLeastRecent(p) ==
  IF p.mainList = <<>> THEN p
  ELSE LET leastRecent == p.mainList[Len(p.mainList)]
           q == [AlpRemoveFromMain(p, leastRecent)
                   EXCEPT !.mainCache = Drop(p.mainCache, leastRecent)]
           r == IF GhostSize(q.ghostList) >= q.ghostCapacity
                THEN AlpRemoveOldestGhost(q) ELSE q
       IN  AlpAddToGhost(r, leastRecent)

AlpUpdateExistingNode(p, key, value) ==
  AlpMoveToFront([p EXCEPT !.mainCache[key].value = value], key)

AlpAddNewNode(p, key, value) ==
  LET q == IF Cardinality(DOMAIN p.mainCache) >= p.capacity
           THEN AlpEvictLeastRecent(p) ELSE p
  IN  AlpAddToFront(
        [q EXCEPT !.mainCache = Put(q.mainCache, key, [value |-> value, accessCount |-> 1])],
        key)

\* Mutant of AlpUpdateNodeAccess: promotion is asked for one access late.
AlpUpdateNodeAccessLate(p, key) ==
  LET q == [AlpMoveToFront(p, key) EXCEPT !.mainCache[key].accessCount = @ + 1]
  IN  [p |-> q, ret |-> q.mainCache[key].accessCount > q.transformThreshold]

AlpUpdateNodeAccess(p, key) ==
  LET q == [AlpMoveToFront(p, key) EXCEPT !.mainCache[key].accessCount = @ + 1]
  IN  [p |-> q, ret |-> q.mainCache[key].accessCount >= q.transformThreshold]

AlpPut(p, key, value) ==
  IF p.capacity = 0 THEN [p |-> p, ret |-> FALSE]
  ELSE IF key \in DOMAIN p.mainCache
       THEN [p |-> AlpUpdateExistingNode(p, key, value), ret |-> TRUE]
       ELSE [p |-> AlpAddNewNode(p, key, value), ret |-> TRUE]

AlpGet(p, key, value, shouldTransform) ==
  IF key \in DOMAIN p.mainCache
  THEN LET a == AlpUpdateNodeAccess(p, key)
       IN  [p |-> a.p, ret |-> TRUE, value |-> a.p.mainCache[key].value,
            shouldTransform |-> a.ret]
  ELSE [p |-> p, ret |-> FALSE, value |-> value, shouldTransform |-> shouldTransform]

\* Mutant of AlpCheckGhost: a hit is reported but the record stays.
AlpCheckGhostKeepsRecord(p, key) ==
  [p |-> p, ret |-> key \in GhostKeys(p.ghostList)]

AlpCheckGhost(p, key) ==
  IF key \in GhostKeys(p.ghostList)
  THEN [p |-> [p EXCEPT !.ghostList = RemoveAt(p.ghostList, GhostIndex(p.ghostList, key))],
        ret |-> TRUE]
  ELSE [p |-> p, ret |-> FALSE]

AlpIncreaseCapacity(p) == [p EXCEPT !.capacity = @ + 1]

AlpDecreaseCapacity(p) ==
  IF p.capacity <= 0 THEN [p |-> [p EXCEPT !.capacity = 0], ret |-> FALSE]
  ELSE LET q == IF Cardinality(DOMAIN p.mainCache) = p.capacity
                THEN AlpEvictLeastRecent(p) ELSE p
       IN  [p |-> [q EXCEPT !.capacity = @ - 1], ret |-> TRUE]

\* ------------------------------------------------------------- ArcLfuPart
\* [capacity, ghostCapacity, transformThreshold, minFreq,
\*  mainCache : key -> [value, accessCount],
\*  freqMap : freq -> keys from front to back, ghostList].

AfpNew(capacity, transformThreshold) ==
  [capacity |-> capacity, ghostCapacity |-> capacity,
   transformThreshold |-> transformThreshold, minFreq |-> 0,
   mainCache |-> EmptyMap, freqMap |-> EmptyMap, ghostList |-> <<>>]

AfpAddToGhost(p, key) ==
  [p EXCEPT !.ghostList =
     Append(GhostErase(p.ghostList, key),
            [key |-> key, accessCount |-> p.mainCache[key].accessCount, mapped |-> TRUE])]

AfpRemoveOldestGhost(p) ==
  IF p.ghostList = <<>> THEN p
  ELSE LET oldestGhost == p.ghostList[1]
       IN  [p EXCEPT !.ghostList = GhostErase(RemoveAt(p.ghostList, 1), oldestGhost.key)]

\* _freqMap[_minFreq] creates an empty list when the bucket is missing.
AfpEvictLeastFrequent(p) ==
  IF DOMAIN p.freqMap = {} THEN p
  ELSE IF p.minFreq \notin DOMAIN p.freqMap
  THEN [p EXCEPT !.freqMap = Put(p.freqMap, p.minFreq, <<>>)]
  ELSE IF p.freqMap[p.minFreq] = <<>> THEN p
  ELSE LET leastNode == Head(p.freqMap[p.minFreq])
           rest == Tail(p.freqMap[p.minFreq])
           fm == IF rest = <<>> THEN Drop(p.freqMap, p.minFreq)
                 ELSE [p.freqMap EXCEPT ![p.minFreq] = rest]
           mf == IF rest = <<>> /\ DOMAIN fm # {} THEN Min(DOMAIN fm) ELSE p.minFreq
           q == [p EXCEPT !.freqMap = fm, !.minFreq = mf]
           r == IF GhostSize(q.ghostList) >= q.ghostCapacity
                THEN AfpRemoveOldestGhost(q) ELSE q
           t == AfpAddToGhost(r, leastNode)
       IN  [t EXCEPT !.mainCache = Drop(t.mainCache, leastNode)]

AfpUpdateNodeFrequency(p, key) ==
  LET oldFreq == p.mainCache[key].accessCount
      newFreq == oldFreq + 1
      oldList == IF oldFreq \in DOMAIN p.freqMap
                 THEN Without(p.freqMap[oldFreq], key) ELSE <<>>
      fm1 == IF oldList = <<>> THEN Drop(p.freqMap, oldFreq)
             ELSE Put(p.freqMap, oldFreq, oldList)
      mf == IF oldList = <<>> /\ oldFreq = p.minFreq THEN newFreq ELSE p.minFreq
      cur == IF newFreq \in DOMAIN fm1 THEN fm1[newFreq] ELSE <<>>
  IN  [p EXCEPT !.mainCache[key].accessCount = newFreq,
                !.freqMap = Put(fm1, newFreq, Append(cur, key)),
                !.minFreq = mf]

AfpUpdateExistingNode(p, key, value) ==
  AfpUpdateNodeFrequency([p EXCEPT !.mainCache[key].value = value], key)

AfpAddNewNode(p, key, value) ==
  LET q == IF Cardinality(DOMAIN p.mainCache) >= p.capacity
           THEN AfpEvictLeastFrequent(p) ELSE p
      cur == IF 1 \in DOMAIN q.freqMap THEN q.freqMap[1] ELSE <<>>
  IN  [q EXCEPT !.mainCache = Put(q.mainCache, key, [value |-> value, accessCount |-> 1]),
                !.freqMap = Put(q.freqMap, 1, <<key>> \o cur),
                !.minFreq = 1]

AfpPut(p, key, value) ==
  IF p.capacity = 0 THEN [p |-> p, ret |-> FALSE]
  ELSE IF key \in DOMAIN p.mainCache
       THEN [p |-> AfpUpdateExistingNode(p, key, value), ret |-> TRUE]
       ELSE [p |-> AfpAddNewNode(p, key, value), ret |-> TRUE]

AfpGet(p, key, value) ==
  IF key \in DOMAIN p.mainCache
  THEN LET q == AfpUpdateNodeFrequency(p, key)
       IN  [p |-> q, ret |-> TRUE, value |-> q.mainCache[key].value]
  ELSE [p |-> p, ret |-> FALSE, value |-> value]

AfpContain(p, key) == key \in DOMAIN p.mainCache

AfpCheckGhost(p, key) ==
  IF key \in GhostKeys(p.ghostList)
  THEN [p |-> [p EXCEPT !.ghostList = RemoveAt(p.ghostList, GhostIndex(p.ghostList, key))],
        ret |-> TRUE]
  ELSE [p |-> p, ret |-> FALSE]

AfpIncreaseCapacity(p) == [p EXCEPT !.capacity = @ + 1]

\* Mutant of AfpDecreaseCapacity: the capacity is lowered without evicting.
AfpDecreaseCapacityNoEvict(p) ==
  IF p.capacity <= 0 THEN [p |-> [p EXCEPT !.capacity = 0], ret |-> FALSE]
  ELSE [p |-> [p EXCEPT !.capacity = @ - 1], ret |-> TRUE]

AfpDecreaseCapacity(p) ==
  IF p.capacity <= 0 THEN [p |-> [p EXCEPT !.capacity = 0], ret |-> FALSE]
  ELSE LET q == IF Cardinality(DOMAIN p.mainCache) = p.capacity
                THEN AfpEvictLeastFrequent(p) ELSE p
       IN  [p |-> [q EXCEPT !.capacity = @ - 1], ret |-> TRUE]

\* --------------------------------------------------------------- ArcCache
\* [capacity, transformThreshold, lruPart, lfuPart]

ArcNew(capacity, transformThreshold) ==
  [capacity |-> capacity, transformThreshold |-> transformThreshold,
   lruPart |-> AlpNew(capacity, transformThreshold),
   lfuPart |-> AfpNew(capacity, transformThreshold)]

\* Mutant of ArcCheckGhostCaches: the reciprocal increase ignores whether the
\* decrease was refused.
ArcCheckGhostCachesAlwaysIncrease(a, key) ==
  LET g1 == AlpCheckGhost(a.lruPart, key)
      g2 == AfpCheckGhost(a.lfuPart, key)
  IN  IF g1.ret
      THEN [a |-> [a EXCEPT !.lfuPart = AfpDecreaseCapacity(a.lfuPart).p,
                            !.lruPart = AlpIncreaseCapacity(g1.p)],
            ret |-> TRUE]
      ELSE IF g2.ret
      THEN [a |-> [a EXCEPT !.lruPart = AlpDecreaseCapacity(a.lruPart).p,
                            !.lfuPart = AfpIncreaseCapacity(g2.p)],
            ret |-> TRUE]
      ELSE [a |-> a, ret |-> FALSE]

ArcCheckGhostCaches(a, key) ==
  LET g1 == AlpCheckGhost(a.lruPart, key)
      g2 == AfpCheckGhost(a.lfuPart, key)
  IN  IF g1.ret
      THEN LET d == AfpDecreaseCapacity(a.lfuPart)
           IN  [a |-> [a EXCEPT !.lfuPart = d.p,
                                !.lruPart = IF d.ret THEN AlpIncreaseCapacity(g1.p) ELSE g1.p],
                ret |-> TRUE]
      ELSE IF g2.ret
      THEN LET d == AlpDecreaseCapacity(a.lruPart)
           IN  [a |-> [a EXCEPT !.lruPart = d.p,
                                !.lfuPart = IF d.ret THEN AfpIncreaseCapacity(g2.p) ELSE g2.p],
                ret |-> TRUE]
      ELSE [a |-> a, ret |-> FALSE]

\* Mutant of ArcPut: the value is written to T1 only.
ArcPutLruOnly(a, key, value) ==
  LET b == ArcCheckGhostCaches(a, key).a
  IN  [b EXCEPT !.lruPart = AlpPut(b.lruPart, key, value).p]

ArcPut(a, key, value) ==
  LET b == ArcCheckGhostCaches(a, key).a
      c == [b EXCEPT !.lruPart = AlpPut(b.lruPart, key, value).p]
      inLfu == AfpContain(c.lfuPart, key)
  IN  IF inLfu THEN [c EXCEPT !.lfuPart = AfpPut(c.lfuPart, key, value).p] ELSE c

ArcGet(a, key, value) ==
  LET b == ArcCheckGhostCaches(a, key).a
      g == AlpGet(b.lruPart, key, value, FALSE)
      c == [b EXCEPT !.lruPart = g.p]
  IN  IF g.ret
      THEN [a |-> IF g.shouldTransform
                  THEN [c EXCEPT !.lfuPart = AfpPut(c.lfuPart, key, g.value).p]
                  ELSE c,
            ret |-> TRUE, value |-> g.value]
      ELSE LET h == AfpGet(c.lfuPart, key, value)
           IN  [a |-> [c EXCEPT !.lfuPart = h.p], ret |-> h.ret, value |-> h.value]

\* ==================================================================== LRUK
\* lruk = [k, main : the LRUCache base object, history : _historyList (an
\* LRUCache whose values are access counts), historyValueMap].
LrukNew(capacity, historyCapacity, k) ==
  [k |-> k, main |-> LruNew(capacity), history |-> LruNew(historyCapacity),
   historyValueMap |-> EmptyMap]

\* LRUCache::get(Key): the local Value is not initialised, so a miss returns
\* whatever it held (indeterminate).
LruGetValue(c, key, indeterminate) == LruGet(c, key, indeterminate)

\* _historyList->get(key); historyCount++; _historyList->put(key, historyCount)
LrukCountAccess(c, key, indeterminate) ==
  LET h == LruGetValue(c.history, key, indeterminate)
      historyCount == h.value + 1
  IN  [c |-> [c EXCEPT !.history = LruPut(h.c, key, historyCount)],
       historyCount |-> historyCount]

\* Mutant of LrukPromote: the staged value is left in _historyValueMap.
LrukPromoteKeepsStaging(c, key, value) ==
  [c EXCEPT !.history = LruRemove(c.history, key),
            !.main = LruPut(c.main, key, value)]

LrukPromote(c, key, value) ==
  [c EXCEPT !.history = LruRemove(c.history, key),
            !.historyValueMap = Drop(c.historyValueMap, key),
            !.main = LruPut(c.main, key, value)]

LrukGet(c, key, indeterminate) ==
  LET m == LruGet(c.main, key, DefaultValue)
      a == LrukCountAccess([c EXCEPT !.main = m.c], key, indeterminate)
  IN  IF m.ret THEN [c |-> a.c, value |-> m.value]
      ELSE IF a.historyCount >= c.k /\ key \in DOMAIN a.c.historyValueMap
      THEN [c |-> LrukPromote(a.c, key, a.c.historyValueMap[key]),
            value |-> a.c.historyValueMap[key]]
      ELSE [c |-> a.c, value |-> m.value]

LrukPut(c, key, value, indeterminate) ==
  LET m == LruGet(c.main, key, DefaultValue)
  IN  IF m.ret THEN [c EXCEPT !.main = LruPut(m.c, key, value)]
      ELSE LET a == LrukCountAccess([c EXCEPT !.main = m.c], key, indeterminate)
               b == [a.c EXCEPT !.historyValueMap = Put(a.c.historyValueMap, key, value)]
           IN  IF a.historyCount >= c.k THEN LrukPromote(b, key, value) ELSE b

\* ============================================================ sharded caches
\* shards[i + 1] is slice i of _LRUSliceCaches / _LFUSliceCaches.
CeilDiv(capacity, sliceNum) == (capacity + sliceNum - 1) \div sliceNum

\* std::hash of an integer key is the key itself.
Hash(key) == key

SliceIndex(key, sliceNum) == (Hash(key) % sliceNum) + 1

HashLruNew(capacity, sliceNum) ==
  [i \in 1 .. sliceNum |-> LruNew(CeilDiv(capacity, sliceNum))]

\* Mutant of HashLruPut: the put goes to the slice after the selected one.
HashLruPutNextSlice(h, key, value) ==
  [h EXCEPT ![(SliceIndex(key, Len(h)) % Len(h)) + 1] = LruPut(@, key, value)]

HashLruPut(h, key, value) ==
  [h EXCEPT ![SliceIndex(key, Len(h))] = LruPut(@, key, value)]

HashLruGet(h, key, value) ==
  LET i == SliceIndex(key, Len(h))
      r == LruGet(h[i], key, value)
  IN  [c |-> [h EXCEPT ![i] = r.c], ret |-> r.ret, value |-> r.value]

HashLfuNew(capacity, sliceNum, maxAverageNum) ==
  [i \in 1 .. sliceNum |-> LfuNew(CeilDiv(capacity, sliceNum), maxAverageNum)]

HashLfuPut(h, key, value, order) ==
  [h EXCEPT ![SliceIndex(key, Len(h))] = LfuPut(@, key, value, order)]

HashLfuGet(h, key, value, order) ==
  LET i == SliceIndex(key, Len(h))
      r == LfuGet(h[i], key, value, order)
  IN  [c |-> [h EXCEPT ![i] = r.c], ret |-> r.ret, value |-> r.value]

HashLfuPurge(h) == [i \in 1 .. Len(h) |-> LfuPurge(h[i])]

\* ================================================================= actions
\* The keys get() can currently return, and the configured capacity.
Resident ==
  CASE engine = "LRU" -> DOMAIN lru.nodeMap
    [] engine = "LFU" -> DOMAIN lfu.nodeMap
    [] engine = "ARC" -> DOMAIN arc.lruPart.mainCache \cup DOMAIN arc.lfuPart.mainCache
    [] engine = "LRUK" -> DOMAIN lruk.main.nodeMap
    [] engine \in {"HashLRU", "HashLFU"} ->
         UNION {DOMAIN shards[i].nodeMap : i \in 1 .. Len(shards)}

Capacity ==
  CASE engine = "LRU" -> lru.capacity
    [] engine = "LFU" -> lfu.capacity
    [] engine = "ARC" -> arc.capacity
    [] engine = "LRUK" -> lruk.main.capacity
    [] engine \in {"HashLRU", "HashLFU"} ->
         IF shards = <<>> THEN 0 ELSE Len(shards) * shards[1].capacity

T1 == DOMAIN arc.lruPart.mainCache

T2 == DOMAIN arc.lfuPart.mainCache

B1 == GhostKeys(arc.lruPart.ghostList)

B2 == GhostKeys(arc.lfuPart.ghostList)

\* Threads calling one shared engine.  pc[t] is the position of thread t
\* inside the public call it is executing together with the call's arguments
\* and locals (found: result of the map lookup, count: historyCount, order:
\* iteration order of the unordered_map met by the call); held[m] is the
\* thread owning std::mutex m (NoThread when it is free); lin is the engine
\* state obtained by running the calls one after another in the order in
\* which they acquired the engine mutex; started counts the calls begun.
Threads == 1 .. NumThreads

ThreadKeys == 0 .. (NumThreadKeys - 1)

NoThread == 0

Mutexes == {"lru", "lfu", "lruPart", "lfuPart", "main", "history", "shard1", "shard2"}

IdlePc ==
  [pos |-> "idle", op |-> "none", key |-> DefaultKey, val |-> DefaultValue,
   found |-> FALSE, count |-> 0, ret |-> FALSE, out |-> DefaultValue,
   order |-> <<>>, expRet |-> FALSE, expOut |-> DefaultValue, slice |-> 0]

\* Bookkeeping of the call history.  last describes the latest call: its
\* arguments and results, whether the key was resident and the engine full
\* when it started, the keys it made non-resident, the ghost list it hit and
\* the sub-cache the rebalance took an entry from.  lastPut is the value of
\* the latest put of each key; recency lists the resident keys of an LRU or
\* LFU engine in the order of their latest successful access.
Touch(k) == Append(Without(recency, k), k)

\* recency for an ArcCache: the keys resident in T2 in the order in which
\* they entered their present frequency level.  The rebalance of a call on k
\* may evict a key; whatever the call does to T2 afterwards is done to k,
\* which then is the latest to have entered its level.
ArcOrder(k) ==
  LET b == ArcCheckGhostCaches(arc, k).a
      kept == SelectSeq(recency, LAMBDA x : x \in DOMAIN b.lfuPart.mainCache)
      now == IF arc'.lfuPart # b.lfuPart THEN Append(Without(kept, k), k) ELSE kept
  IN  SelectSeq(now, LAMBDA x : x \in DOMAIN arc'.lfuPart.mainCache)

Observed(op, k, v, ret, out, touched, ghost, shrunk) ==
  /\ last' = [op |-> op, key |-> k, val |-> v, ret |-> ret, out |-> out,
              wasIn |-> k \in Resident,
              wasFull |-> Cardinality(Resident) >= Capacity,
              evicted |-> Resident \ Resident',
              ghost |-> ghost, shrunk |-> shrunk,
              before |-> IF engine = "LFU" /\ k \in DOMAIN lfu.nodeMap
                         THEN lfu.nodeMap[k].freq ELSE 0]
  /\ lastPut' = IF op = "put" THEN [lastPut EXCEPT ![k] = v] ELSE lastPut
  /\ recency' = IF engine = "ARC" THEN ArcOrder(k)
                ELSE SelectSeq(IF touched THEN Touch(k) ELSE recency,
                               LAMBDA x : x \in Resident')

History(op, k, v, ret, out, touched, ghost, shrunk) ==
  /\ Observed(op, k, v, ret, out, touched, ghost, shrunk)
  /\ UNCHANGED <<pc, held, lin, started>>

Record(op, k, v, ret, out, touched, ghost, shrunk) ==
  /\ History(op, k, v, ret, out, touched, ghost, shrunk)
  /\ UNCHANGED <<lruk, callsOn, shards>>

InitHistory ==
  /\ last = [op |-> "new", key |-> DefaultKey, val |-> DefaultValue,
             ret |-> FALSE, out |-> DefaultValue, wasIn |-> FALSE,
             wasFull |-> FALSE, evicted |-> {}, ghost |-> "none", shrunk |-> "none",
             before |-> 0]
  /\ lastPut = [k \in Keys |-> DefaultValue]
  /\ recency = <<>>
  /\ callsOn = [k \in Keys |-> 0]
  /\ pc = [t \in Threads |-> IdlePc]
  /\ held = [m \in Mutexes |-> NoThread]
  /\ lin = [lru |-> lru, lfu |-> lfu]
  /\ started = 0

InitCommon ==
  /\ InitHistory
  /\ lruk = LrukNew(0, 0, 1)
  /\ shards = <<>>

InitLRU ==
  /\ engine = "LRU"
  /\ \E capacity \in Capacities : lru = LruNew(capacity)
  /\ lfu = LfuNew(0, DefaultMaxAverageNum)
  /\ arc = ArcNew(0, DefaultTransformThreshold)
  /\ InitCommon

InitLFU ==
  /\ engine = "LFU"
  /\ lru = LruNew(0)
  /\ \E cfg \in LfuConfigs : lfu = LfuNew(cfg[1], cfg[2])
  /\ arc = ArcNew(0, DefaultTransformThreshold)
  /\ InitCommon

InitARC ==
  /\ engine = "ARC"
  /\ lru = LruNew(0)
  /\ lfu = LfuNew(0, DefaultMaxAverageNum)
  /\ \E capacity \in ArcCapacities : arc = ArcNew(capacity, DefaultTransformThreshold)
  /\ InitCommon

\* An ArcCache of capacity 1 constructed with each promotion threshold.
InitArcThresholds ==
  /\ engine = "ARC"
  /\ lru = LruNew(0)
  /\ lfu = LfuNew(0, DefaultMaxAverageNum)
  /\ \E transformThreshold \in TransformThresholds : arc = ArcNew(1, transformThreshold)
  /\ InitCommon

Init == InitLRU \/ InitLFU \/ InitARC

LRUPut ==
  \E k \in Keys, v \in Values :
    /\ engine = "LRU"
    /\ lru' = LruPut(lru, k, v)
    /\ UNCHANGED <<engine, lfu, arc>>
    /\ Record("put", k, v, FALSE, DefaultValue, k \in DOMAIN lru'.nodeMap, "none", "none")

LRUGet ==
  \E k \in Keys :
    LET r == LruGet(lru, k, DefaultValue)
    IN  /\ engine = "LRU"
        /\ lru' = r.c
        /\ UNCHANGED <<engine, lfu, arc>>
        /\ Record("get", k, DefaultValue, r.ret, r.value, r.ret, "none", "none")

LRURemove ==
  \E k \in Keys :
    /\ engine = "LRU"
    /\ lru' = LruRemove(lru, k)
    /\ UNCHANGED <<engine, lfu, arc>>
    /\ Record("remove", k, DefaultValue, FALSE, DefaultValue, FALSE, "none", "none")

\* Counters are capped: a call that would take a frequency past MaxFreq, or
\* that starts with the running total outside -MaxTotal .. MaxTotal, is not
\* explored.
LfuWithin(c) == \A k \in DOMAIN c.nodeMap : c.nodeMap[k].freq <= MaxFreq

LfuTotalWithin == lfu.curTotalNum \in (-MaxTotal) .. MaxTotal

LFUPut ==
  \E k \in Keys, v \in Values :
   \E order \in Orders(DOMAIN lfu.nodeMap \cup {k}) :
    /\ engine = "LFU"
    /\ ~lfu.crashed
    /\ LfuTotalWithin
    /\ lfu' = LfuPut(lfu, k, v, order)
    /\ LfuWithin(lfu')
    /\ UNCHANGED <<engine, lru, arc>>
    /\ Record("put", k, v, FALSE, DefaultValue, k \in DOMAIN lfu'.nodeMap, "none", "none")

LFUGet ==
  \E k \in Keys, order \in Orders(DOMAIN lfu.nodeMap) :
    LET r == LfuGet(lfu, k, DefaultValue, order)
    IN  /\ engine = "LFU"
        /\ ~lfu.crashed
        /\ LfuTotalWithin
        /\ lfu' = r.c
        /\ LfuWithin(lfu')
        /\ UNCHANGED <<engine, lru, arc>>
        /\ Record("get", k, DefaultValue, r.ret, r.value, r.ret, "none", "none")

LFUPurge ==
  /\ engine = "LFU"
  /\ ~lfu.crashed
  /\ lfu' = LfuPurge(lfu)
  /\ UNCHANGED <<engine, lru, arc>>
  /\ Record("purge", DefaultKey, DefaultValue, FALSE, DefaultValue, FALSE, "none", "none")

\* The largest access count explored: ArcMaxCount, or the promotion threshold
\* when that is larger.
ArcCountBound(a) ==
  IF a.transformThreshold > ArcMaxCount THEN a.transformThreshold ELSE ArcMaxCount

\* A call that would take an access count past ArcCountBound, or leave more
\* than MaxOrphans unmapped nodes linked in a ghost list, is not explored.
ArcWithin(a) ==
  /\ Len(a.lruPart.ghostList) <= GhostSize(a.lruPart.ghostList) + MaxOrphans
  /\ Len(a.lfuPart.ghostList) <= GhostSize(a.lfuPart.ghostList) + MaxOrphans
  /\ \A k \in DOMAIN a.lruPart.mainCache : a.lruPart.mainCache[k].accessCount <= ArcCountBound(a)
  /\ \A k \in DOMAIN a.lfuPart.mainCache : a.lfuPart.mainCache[k].accessCount <= ArcCountBound(a)

GhostHit(k) == IF k \in B1 THEN "B1" ELSE IF k \in B2 THEN "B2" ELSE "none"

\* The sub-cache that loses a resident entry in the rebalance of a call on k.
Shrunk(k) ==
  LET b == ArcCheckGhostCaches(arc, k).a
  IN  IF DOMAIN b.lfuPart.mainCache # T2 THEN "T2"
      ELSE IF DOMAIN b.lruPart.mainCache # T1 THEN "T1" ELSE "none"

\* The values put into an ArcCache: at the largest capacity explored a single
\* value, below it every value.
ArcValues == IF arc.capacity >= ArcMaxCap THEN {NumVals} ELSE Values

ARCPut ==
  \E k \in Keys, v \in ArcValues :
    /\ engine = "ARC"
    /\ arc' = ArcPut(arc, k, v)
    /\ ArcWithin(arc')
    /\ UNCHANGED <<engine, lru, lfu>>
    /\ Record("put", k, v, FALSE, DefaultValue, FALSE, GhostHit(k), Shrunk(k))

ARCGet ==
  \E k \in Keys :
    LET r == ArcGet(arc, k, DefaultValue)
    IN  /\ engine = "ARC"
        /\ arc' = r.a
        /\ ArcWithin(arc')
        /\ UNCHANGED <<engine, lru, lfu>>
        /\ Record("get", k, DefaultValue, r.ret, r.value, FALSE, GhostHit(k), Shrunk(k))

\* ------------------------------------------------------- LRUK and shards
\* The value an uninitialised local may hold.
Garbage == 0 .. MaxGarbage

\* A call that would take a history count past MaxHistory is not explored;
\* callsOn counts the calls made on each key and saturates at MaxK.
LrukWithin(c) ==
  \A k \in DOMAIN c.history.nodeMap : c.history.nodeMap[k].value <= MaxHistory

CountCall(k) == callsOn' = [callsOn EXCEPT ![k] = IF @ < MaxK THEN @ + 1 ELSE @]

InitLRUK ==
  /\ engine = "LRUK"
  /\ lru = LruNew(0)
  /\ lfu = LfuNew(0, DefaultMaxAverageNum)
  /\ arc = ArcNew(0, DefaultTransformThreshold)
  /\ \E capacity \in 0 .. LrukMaxCap, historyCapacity \in Capacities, k \in 1 .. MaxK :
       lruk = LrukNew(capacity, historyCapacity, k)
  /\ shards = <<>>
  /\ InitHistory

LRUKPut ==
  \E k \in Keys, v \in Values, g \in Garbage :
    /\ engine = "LRUK"
    /\ lruk' = LrukPut(lruk, k, v, g)
    /\ LrukWithin(lruk')
    /\ CountCall(k)
    /\ UNCHANGED <<engine, lru, lfu, arc, shards>>
    /\ History("put", k, v, FALSE, DefaultValue, k \in DOMAIN lruk'.main.nodeMap,
               "none", "none")

LRUKGet ==
  \E k \in Keys, g \in Garbage :
    LET r == LrukGet(lruk, k, g)
    IN  /\ engine = "LRUK"
        /\ lruk' = r.c
        /\ LrukWithin(lruk')
        /\ CountCall(k)
        /\ UNCHANGED <<engine, lru, lfu, arc, shards>>
        /\ History("get", k, DefaultValue, k \in DOMAIN lruk'.main.nodeMap, r.value,
                   k \in DOMAIN lruk'.main.nodeMap, "none", "none")

InitHashLRU ==
  /\ engine = "HashLRU"
  /\ lru = LruNew(0)
  /\ lfu = LfuNew(0, DefaultMaxAverageNum)
  /\ arc = ArcNew(0, DefaultTransformThreshold)
  /\ lruk = LrukNew(0, 0, 1)
  /\ \E capacity \in 0 .. HashMaxCap, sliceNum \in 1 .. MaxSlices :
       shards = HashLruNew(capacity, sliceNum)
  /\ InitHistory

InitHashLFU ==
  /\ engine = "HashLFU"
  /\ lru = LruNew(0)
  /\ lfu = LfuNew(0, DefaultMaxAverageNum)
  /\ arc = ArcNew(0, DefaultTransformThreshold)
  /\ lruk = LrukNew(0, 0, 1)
  /\ \E capacity \in 0 .. HashMaxCap, sliceNum \in 1 .. MaxSlices, m \in MaxAverageNums :
       shards = HashLfuNew(capacity, sliceNum, m)
  /\ InitHistory

HashLRUPut ==
  \E k \in Keys, v \in Values :
    /\ engine = "HashLRU"
    /\ shards' = HashLruPut(shards, k, v)
    /\ UNCHANGED <<engine, lru, lfu, arc, lruk, callsOn>>
    /\ History("put", k, v, FALSE, DefaultValue,
               k \in DOMAIN shards'[SliceIndex(k, Len(shards))].nodeMap, "none", "none")

HashLRUGet ==
  \E k \in Keys :
    LET r == HashLruGet(shards, k, DefaultValue)
    IN  /\ engine = "HashLRU"
        /\ shards' = r.c
        /\ UNCHANGED <<engine, lru, lfu, arc, lruk, callsOn>>
        /\ History("get", k, DefaultValue, r.ret, r.value, r.ret, "none", "none")

ShardsWithin(h) ==
  \A i \in 1 .. Len(h) :
    /\ LfuWithin(h[i])
    /\ h[i].curTotalNum \in (-MaxTotal) .. MaxTotal
    /\ ~h[i].crashed

HashLFUPut ==
  \E k \in Keys, v \in Values :
   \E order \in Orders(DOMAIN shards[SliceIndex(k, Len(shards))].nodeMap \cup {k}) :
    /\ engine = "HashLFU"
    /\ ShardsWithin(shards)
    /\ shards' = HashLfuPut(shards, k, v, order)
    /\ ShardsWithin(shards')
    /\ UNCHANGED <<engine, lru, lfu, arc, lruk, callsOn>>
    /\ History("put", k, v, FALSE, DefaultValue,
               k \in DOMAIN shards'[SliceIndex(k, Len(shards))].nodeMap, "none", "none")

HashLFUGet ==
  \E k \in Keys :
   \E order \in Orders(DOMAIN shards[SliceIndex(k, Len(shards))].nodeMap) :
    LET r == HashLfuGet(shards, k, DefaultValue, order)
    IN  /\ engine = "HashLFU"
        /\ ShardsWithin(shards)
        /\ shards' = r.c
        /\ ShardsWithin(shards')
        /\ UNCHANGED <<engine, lru, lfu, arc, lruk, callsOn>>
        /\ History("get", k, DefaultValue, r.ret, r.value, r.ret, "none", "none")

HashLFUPurge ==
  /\ engine = "HashLFU"
  /\ shards' = HashLfuPurge(shards)
  /\ UNCHANGED <<engine, lru, lfu, arc, lruk, callsOn>>
  /\ History("purge", DefaultKey, DefaultValue, FALSE, DefaultValue, FALSE, "none", "none")

NextLRUK == LRUKPut \/ LRUKGet

NextHash == HashLRUPut \/ HashLRUGet \/ HashLFUPut \/ HashLFUGet \/ HashLFUPurge

SpecLRUK == InitLRUK /\ [][NextLRUK]_vars

SpecHash == (InitHashLRU \/ InitHashLFU) /\ [][NextHash]_vars

Next ==
  \/ LRUPut \/ LRUGet \/ LRURemove
  \/ LFUPut \/ LFUGet \/ LFUPurge
  \/ ARCPut \/ ARCGet

Spec == Init /\ [][Next]_vars

NextLRU == LRUPut \/ LRUGet \/ LRURemove

\* A full-size LFUCache followed through long runs of calls: frequencies are
\* explored up to MaxLongFreq.
InitLfuLong ==
  /\ engine = "LFU"
  /\ lru = LruNew(0)
  /\ \E maxAverageNum \in MaxAverageNums : lfu = LfuNew(MaxCap, maxAverageNum)
  /\ arc = ArcNew(0, DefaultTransformThreshold)
  /\ InitCommon

LfuLongWithin(c) == \A k \in DOMAIN c.nodeMap : c.nodeMap[k].freq <= MaxLongFreq

LFUPutLong ==
  \E k \in Keys, v \in Values :
   \E order \in Orders(DOMAIN lfu.nodeMap \cup {k}) :
    /\ engine = "LFU"
    /\ ~lfu.crashed
    /\ LfuTotalWithin
    /\ lfu' = LfuPut(lfu, k, v, order)
    /\ LfuLongWithin(lfu')
    /\ UNCHANGED <<engine, lru, arc>>
    /\ Record("put", k, v, FALSE, DefaultValue, k \in DOMAIN lfu'.nodeMap, "none", "none")

LFUGetLong ==
  \E k \in Keys, order \in Orders(DOMAIN lfu.nodeMap) :
    LET r == LfuGet(lfu, k, DefaultValue, order)
    IN  /\ engine = "LFU"
        /\ ~lfu.crashed
        /\ LfuTotalWithin
        /\ lfu' = r.c
        /\ LfuLongWithin(lfu')
        /\ UNCHANGED <<engine, lru, arc>>
        /\ Record("get", k, DefaultValue, r.ret, r.value, r.ret, "none", "none")

NextLfuLong == LFUPutLong \/ LFUGetLong

SpecLfuLong == InitLfuLong /\ [][NextLfuLong]_vars

\* An LFUCache next to a reference engine lin.lfu that is constructed anew,
\* with the same capacity and maxAverageNum, at every purge() and receives
\* the same calls, with the same iteration order of _nodeMap.  Frequencies
\* are explored up to MaxRefFreq, and calls until the two engines hold
\* different entries.
LfuRefWithin(c) == \A k \in DOMAIN c.nodeMap : c.nodeMap[k].freq <= MaxRefFreq

SameEntries ==
  [k \in DOMAIN lfu.nodeMap |-> lfu.nodeMap[k].value]
    = [k \in DOMAIN lin.lfu.nodeMap |-> lin.lfu.nodeMap[k].value]

Reference(c) ==
  /\ lin' = [lin EXCEPT !.lfu = c]
  /\ LfuRefWithin(c)
  /\ lin.lfu.curTotalNum \in (-MaxTotal) .. MaxTotal
  /\ UNCHANGED <<pc, held, started, lruk, callsOn, shards>>

LFUPutBoth ==
  \E k \in Keys, v \in Values :
   \E order \in Orders(DOMAIN lfu.nodeMap \cup DOMAIN lin.lfu.nodeMap \cup {k}) :
    /\ engine = "LFU"
    /\ ~lfu.crashed /\ ~lin.lfu.crashed
    /\ SameEntries
    /\ LfuTotalWithin
    /\ lfu' = LfuPut(lfu, k, v, order)
    /\ LfuRefWithin(lfu')
    /\ UNCHANGED <<engine, lru, arc>>
    /\ Reference(LfuPut(lin.lfu, k, v, order))
    /\ Observed("put", k, v, FALSE, DefaultValue, k \in DOMAIN lfu'.nodeMap, "none", "none")

LFUGetBoth ==
  \E k \in Keys, order \in Orders(DOMAIN lfu.nodeMap \cup DOMAIN lin.lfu.nodeMap) :
    LET r == LfuGet(lfu, k, DefaultValue, order)
    IN  /\ engine = "LFU"
        /\ ~lfu.crashed /\ ~lin.lfu.crashed
        /\ SameEntries
        /\ LfuTotalWithin
        /\ lfu' = r.c
        /\ LfuRefWithin(lfu')
        /\ UNCHANGED <<engine, lru, arc>>
        /\ Reference(LfuGet(lin.lfu, k, DefaultValue, order).c)
        /\ Observed("get", k, DefaultValue, r.ret, r.value, r.ret, "none", "none")

LFUPurgeBoth ==
  /\ engine = "LFU"
  /\ ~lfu.crashed
  /\ lfu' = LfuPurge(lfu)
  /\ UNCHANGED <<engine, lru, arc>>
  /\ Reference(LfuNew(lfu.capacity, lfu.maxAverageNum))
  /\ Observed("purge", DefaultKey, DefaultValue, FALSE, DefaultValue, FALSE, "none", "none")

NextLfuBoth == LFUPutBoth \/ LFUGetBoth \/ LFUPurgeBoth

SpecLfuBoth == InitLfuLong /\ [][NextLfuBoth]_vars

NextLFU == LFUPut \/ LFUGet \/ LFUPurge

NextARC == ARCPut \/ ARCGet

SpecLRU == InitLRU /\ [][NextLRU]_vars

SpecLFU == InitLFU /\ [][NextLFU]_vars

SpecLruLfu == (InitLRU \/ InitLFU) /\ [][NextLRU \/ NextLFU]_vars

SpecARC == InitARC /\ [][NextARC]_vars

SpecArcThresholds == InitArcThresholds /\ [][NextARC]_vars

\* Engines constructed with capacity 0 (the capacity never changes afterwards).
InitCapacityZero == Init /\ Capacity = 0

SpecCapacityZero == InitCapacityZero /\ [][Next]_vars

\* ================================================================= threads
\* std::lock_guard<std::mutex>: the constructor blocks until the mutex is free
\* and takes it, the destructor at the end of the scope releases it.
\* Mutant of CanLock: the constructor never waits.
CanLockAlways(h, m, t) == TRUE

CanLock(h, m, t) == h[m] = NoThread

Lock(h, m, t) == [h EXCEPT ![m] = t]

Unlock(h, m, t) == [h EXCEPT ![m] = NoThread]

IsLruFamily == engine \in {"LRU", "HashLRU"}

HasShards == engine \in {"HashLRU", "HashLFU"}

ShardMutex(i) == IF i = 1 THEN "shard1" ELSE "shard2"

\* The cache object a call of thread t works on and the mutex it owns.
MutexOf(t) ==
  CASE engine = "LRU" -> "lru"
    [] engine = "LFU" -> "lfu"
    [] OTHER -> ShardMutex(pc[t].slice)

TargetLru(t) == IF engine = "LRU" THEN lru ELSE shards[pc[t].slice]

TargetLfu(t) == IF engine = "LFU" THEN lfu ELSE shards[pc[t].slice]

Store(t, c) ==
  /\ lru' = IF engine = "LRU" THEN c ELSE lru
  /\ lfu' = IF engine = "LFU" THEN c ELSE lfu
  /\ shards' = IF HasShards THEN [shards EXCEPT ![pc[t].slice] = c] ELSE shards

\* The statements of LRUCache::put / get / remove after the map lookup.
LruBody(c, op, key, value, found) ==
  CASE op = "put" ->
         [c |-> IF found THEN LruUpdateExistringNode(c, key, value)
                ELSE LruAddNewNode(c, key, value),
          ret |-> FALSE, value |-> DefaultValue]
    [] op = "get" ->
         IF found
         THEN [c |-> LruMoveToMostRecent(c, key), ret |-> TRUE,
               value |-> c.nodeMap[key].value]
         ELSE [c |-> c, ret |-> FALSE, value |-> DefaultValue]
    [] OTHER ->
         [c |-> IF found
                THEN [LruRemoveNode(c, key) EXCEPT !.nodeMap = Drop(c.nodeMap, key)]
                ELSE c,
          ret |-> FALSE, value |-> DefaultValue]

\* The statements of LFUCache::put / get / purge after the map lookup.
LfuBody(c, op, key, value, found, order) ==
  CASE op = "put" ->
         [c |-> IF found
                THEN LfuGetInternal([c EXCEPT !.nodeMap[key].value = value], key, order).c
                ELSE LfuPutInternal(c, key, value, order),
          ret |-> FALSE, value |-> DefaultValue]
    [] op = "get" ->
         IF found
         THEN LET r == LfuGetInternal(c, key, order)
              IN  [c |-> r.c, ret |-> TRUE, value |-> r.value]
         ELSE [c |-> c, ret |-> FALSE, value |-> DefaultValue]
    [] OTHER -> [c |-> LfuPurge(c), ret |-> FALSE, value |-> DefaultValue]

\* The same call run alone on the reference state lin.
Sequential(op, key, value, order) ==
  CASE engine = "LRU" /\ op = "put" ->
         [lin |-> [lin EXCEPT !.lru = LruPut(@, key, value)],
          ret |-> FALSE, value |-> DefaultValue]
    [] engine = "LRU" /\ op = "get" ->
         LET r == LruGet(lin.lru, key, DefaultValue)
         IN  [lin |-> [lin EXCEPT !.lru = r.c], ret |-> r.ret, value |-> r.value]
    [] engine = "LRU" /\ op = "remove" ->
         [lin |-> [lin EXCEPT !.lru = LruRemove(@, key)],
          ret |-> FALSE, value |-> DefaultValue]
    [] engine = "LFU" /\ op = "put" ->
         [lin |-> [lin EXCEPT !.lfu = LfuPut(@, key, value, order)],
          ret |-> FALSE, value |-> DefaultValue]
    [] engine = "LFU" /\ op = "get" ->
         LET r == LfuGet(lin.lfu, key, DefaultValue, order)
         IN  [lin |-> [lin EXCEPT !.lfu = r.c], ret |-> r.ret, value |-> r.value]
    [] engine = "LFU" /\ op = "purge" ->
         [lin |-> [lin EXCEPT !.lfu = LfuPurge(@)],
          ret |-> FALSE, value |-> DefaultValue]
    [] OTHER -> [lin |-> lin, ret |-> FALSE, value |-> DefaultValue]

Ops ==
  CASE engine = "LRU" -> {"put", "get", "remove"}
    [] engine \in {"LFU", "HashLFU"} -> {"put", "get", "purge"}
    [] OTHER -> {"put", "get"}

Args(op) ==
  CASE op = "put" -> ThreadKeys \X Values
    [] op = "purge" -> {<<DefaultKey, DefaultValue>>}
    [] OTHER -> ThreadKeys \X {DefaultValue}

\* First position of a public call.
Entry(op) ==
  CASE engine = "ARC" -> "checkGhost1"
    [] engine = "LRUK" -> "mainGet"
    [] op = "put" -> "check"
    [] OTHER -> "lock"

UnchangedHistory == UNCHANGED <<engine, last, lastPut, recency, callsOn>>

\* Number of calls the threads make in all.
CallBudget == IF engine = "LRUK" THEN MaxLrukCalls ELSE MaxCalls

\* Thread t enters a public method of the shared engine.
ThreadCall(t) ==
  /\ pc[t].pos = "idle"
  /\ started < CallBudget
  /\ \E op \in Ops : \E a \in Args(op) :
       pc' = [pc EXCEPT ![t] =
                [IdlePc EXCEPT !.pos = Entry(op), !.op = op, !.key = a[1], !.val = a[2],
                               !.slice = IF ~HasShards THEN 0
                                         ELSE IF op = "purge" THEN 1
                                         ELSE SliceIndex(a[1], Len(shards))]]
  /\ started' = started + 1
  /\ UNCHANGED <<lru, lfu, arc, lruk, shards, held, lin>>
  /\ UnchangedHistory

\* put: the test of the immutable _capacity made before the lock is taken.
ThreadCheckCapacity(t) ==
  /\ pc[t].pos = "check"
  /\ pc' = [pc EXCEPT ![t].pos =
              IF (IF IsLruFamily THEN TargetLru(t).capacity <= 0
                  ELSE TargetLfu(t).capacity = 0)
              THEN "idle" ELSE "lock"]
  /\ UNCHANGED <<lru, lfu, arc, lruk, shards, held, lin, started>>
  /\ UnchangedHistory

\* std::lock_guard<std::mutex> lock(_mutex): the call takes its place in the
\* sequential order.
ThreadLock(t) ==
  /\ pc[t].pos = "lock"
  /\ CanLock(held, MutexOf(t), t)
  /\ held' = Lock(held, MutexOf(t), t)
  /\ \E order \in (IF IsLruFamily THEN {<<>>}
                   ELSE Orders(DOMAIN TargetLfu(t).nodeMap
                               \cup (IF pc[t].op = "put" THEN {pc[t].key} ELSE {}))) :
       \E r \in {Sequential(pc[t].op, pc[t].key, pc[t].val, order)} :
         /\ pc' = [pc EXCEPT ![t].pos = IF pc[t].op = "purge" THEN "apply" ELSE "find",
                             ![t].order = order,
                             ![t].expRet = r.ret, ![t].expOut = r.value]
         /\ lin' = r.lin
  /\ UNCHANGED <<lru, lfu, arc, lruk, shards, started>>
  /\ UnchangedHistory

\* auto it = _nodeMap.find(key)
ThreadFind(t) ==
  /\ pc[t].pos = "find"
  /\ pc' = [pc EXCEPT ![t].pos = "apply",
                      ![t].found = pc[t].key \in DOMAIN (IF IsLruFamily THEN TargetLru(t)
                                                         ELSE TargetLfu(t)).nodeMap]
  /\ UNCHANGED <<lru, lfu, arc, lruk, shards, held, lin, started>>
  /\ UnchangedHistory

\* The rest of the method and its return, which releases the mutex; purge of
\* a sharded cache goes on to the next shard.
ThreadApply(t) ==
  /\ pc[t].pos = "apply"
  /\ \E r \in {IF IsLruFamily
                THEN LruBody(TargetLru(t), pc[t].op, pc[t].key, pc[t].val, pc[t].found)
                ELSE LfuBody(TargetLfu(t), pc[t].op, pc[t].key, pc[t].val, pc[t].found,
                             pc[t].order)} :
       LET more == HasShards /\ pc[t].op = "purge" /\ pc[t].slice < Len(shards)
       IN  /\ Store(t, r.c)
           /\ pc' = [pc EXCEPT ![t].pos = IF more THEN "lock" ELSE "idle",
                               ![t].slice = IF more THEN @ + 1 ELSE @,
                               ![t].ret = r.ret, ![t].out = r.value]
  /\ held' = Unlock(held, MutexOf(t), t)
  /\ UNCHANGED <<arc, lruk, lin, started>>
  /\ UnchangedHistory

ThreadStep(t) ==
  \/ ThreadCall(t)
  \/ ThreadCheckCapacity(t)
  \/ ThreadLock(t)
  \/ ThreadFind(t)
  \/ ThreadApply(t)

NextThreads == \E t \in Threads : ThreadStep(t)

SpecThreadsLruLfu == (InitLRU \/ InitLFU) /\ [][NextThreads]_vars

\* ------------------------------------------------------------ ARC threads
\* ArcCache has no mutex of its own: checkGhost, decreaseCapacity,
\* increaseCapacity, contain and the test of _capacity at the head of put run
\* unlocked; only the bodies of ArcLruPart::put / get and ArcLfuPart::put /
\* get run under the part's _mutex.
AfterGhost(op) == IF op = "put" THEN "lruCheck" ELSE "lruLock"

PartOf(pos) ==
  IF pos \in {"checkGhost1", "decrease1", "increase1", "lruCheck", "lruLock", "lruBody"}
  THEN "lruPart" ELSE "lfuPart"

\* The members of a part the statement at pc[t].pos reads ("r") or writes ("w").
PutAccess(p, key, main, ghost, cap) ==
  IF key \in DOMAIN p.mainCache THEN {<<main, "w">>}
  ELSE {<<main, "w">>, <<cap, "r">>}
       \cup (IF Cardinality(DOMAIN p.mainCache) >= p.capacity /\ p.mainCache # EmptyMap
             THEN {<<ghost, "w">>} ELSE {})

DecreaseAccess(p, main, ghost, cap) ==
  IF p.capacity <= 0 THEN {<<cap, "w">>}
  ELSE {<<cap, "w">>}
       \cup (IF Cardinality(DOMAIN p.mainCache) = p.capacity
             THEN {<<main, "w">>, <<ghost, "w">>} ELSE {<<main, "r">>})

Access(t) ==
  LET k == pc[t].key
      pos == pc[t].pos
      lfuPuts == pc[t].op = "put" \/ pc[t].ret
  IN  CASE pos = "checkGhost1" -> {<<"lruGhost", IF k \in B1 THEN "w" ELSE "r">>}
        [] pos = "checkGhost2" -> {<<"lfuGhost", IF k \in B2 THEN "w" ELSE "r">>}
        [] pos = "decrease1" -> DecreaseAccess(arc.lruPart, "lruMain", "lruGhost", "lruCap")
        [] pos = "decrease2" -> DecreaseAccess(arc.lfuPart, "lfuMain", "lfuGhost", "lfuCap")
        [] pos = "increase1" -> {<<"lruCap", "w">>}
        [] pos = "increase2" -> {<<"lfuCap", "w">>}
        [] pos = "lruCheck" -> {<<"lruCap", "r">>}
        [] pos = "lfuCheck" -> {<<"lfuCap", "r">>}
        [] pos = "contain" -> {<<"lfuMain", "r">>}
        [] pos = "lruBody" /\ pc[t].op = "put" ->
             PutAccess(arc.lruPart, k, "lruMain", "lruGhost", "lruCap")
        [] pos = "lruBody" /\ pc[t].op = "get" ->
             {<<"lruMain", IF k \in T1 THEN "w" ELSE "r">>}
        [] pos = "lfuBody" /\ lfuPuts ->
             PutAccess(arc.lfuPart, k, "lfuMain", "lfuGhost", "lfuCap")
        [] pos = "lfuBody" /\ ~lfuPuts ->
             {<<"lfuMain", IF k \in T2 THEN "w" ELSE "r">>}
        [] pos \in {"store", "erase"} -> {<<"historyValueMap", "w">>}
        [] pos = "lookup" -> {<<"historyValueMap", "r">>}
        [] OTHER -> {}

\* A data race: the next statements of two threads touch the same member, one
\* of them writes it, and no mutex orders them.
Conflict(t, u) ==
  /\ t # u
  /\ \E a \in Access(t), b \in Access(u) : a[1] = b[1] /\ "w" \in {a[2], b[2]}

\* _lruPart->checkGhost(key) / _lfuPart->checkGhost(key)
ArcThreadCheckGhost(t) ==
  /\ pc[t].pos \in {"checkGhost1", "checkGhost2"}
  /\ LET first == pc[t].pos = "checkGhost1"
         g == IF first THEN AlpCheckGhost(arc.lruPart, pc[t].key)
              ELSE AfpCheckGhost(arc.lfuPart, pc[t].key)
     IN  /\ arc' = IF first THEN [arc EXCEPT !.lruPart = g.p]
                   ELSE [arc EXCEPT !.lfuPart = g.p]
         /\ pc' = [pc EXCEPT ![t].pos =
                     IF first THEN (IF g.ret THEN "decrease2" ELSE "checkGhost2")
                     ELSE (IF g.ret THEN "decrease1" ELSE AfterGhost(pc[t].op))]
  /\ UNCHANGED <<lru, lfu, lruk, shards, held, lin, started>>
  /\ UnchangedHistory

\* _lfuPart->decreaseCapacity() / _lruPart->decreaseCapacity()
ArcThreadDecrease(t) ==
  /\ pc[t].pos \in {"decrease1", "decrease2"}
  /\ LET first == pc[t].pos = "decrease1"
         d == IF first THEN AlpDecreaseCapacity(arc.lruPart)
              ELSE AfpDecreaseCapacity(arc.lfuPart)
     IN  /\ arc' = IF first THEN [arc EXCEPT !.lruPart = d.p]
                   ELSE [arc EXCEPT !.lfuPart = d.p]
         /\ pc' = [pc EXCEPT ![t].pos =
                     IF ~d.ret THEN AfterGhost(pc[t].op)
                     ELSE IF first THEN "increase2" ELSE "increase1"]
  /\ UNCHANGED <<lru, lfu, lruk, shards, held, lin, started>>
  /\ UnchangedHistory

\* _lruPart->increaseCapacity() / _lfuPart->increaseCapacity()
ArcThreadIncrease(t) ==
  /\ pc[t].pos \in {"increase1", "increase2"}
  /\ arc' = IF pc[t].pos = "increase1"
            THEN [arc EXCEPT !.lruPart = AlpIncreaseCapacity(@)]
            ELSE [arc EXCEPT !.lfuPart = AfpIncreaseCapacity(@)]
  /\ pc' = [pc EXCEPT ![t].pos = AfterGhost(pc[t].op)]
  /\ UNCHANGED <<lru, lfu, lruk, shards, held, lin, started>>
  /\ UnchangedHistory

\* ArcLruPart::put / ArcLfuPart::put: if(_capacity == 0) return false, before
\* the lock.
ArcThreadCheckCapacity(t) ==
  /\ pc[t].pos \in {"lruCheck", "lfuCheck"}
  /\ pc' = [pc EXCEPT ![t].pos =
              IF pc[t].pos = "lruCheck"
              THEN (IF arc.lruPart.capacity = 0 THEN "contain" ELSE "lruLock")
              ELSE (IF arc.lfuPart.capacity = 0 THEN "idle" ELSE "lfuLock")]
  /\ UNCHANGED <<lru, lfu, arc, lruk, shards, held, lin, started>>
  /\ UnchangedHistory

\* std::lock_guard<std::mutex> lock(_mutex) of the part.
ArcThreadLock(t) ==
  /\ pc[t].pos \in {"lruLock", "lfuLock"}
  /\ CanLock(held, PartOf(pc[t].pos), t)
  /\ held' = Lock(held, PartOf(pc[t].pos), t)
  /\ pc' = [pc EXCEPT ![t].pos = IF pc[t].pos = "lruLock" THEN "lruBody" ELSE "lfuBody"]
  /\ UNCHANGED <<lru, lfu, arc, lruk, shards, lin, started>>
  /\ UnchangedHistory

\* Body of ArcLruPart::put / get, return and unlock.
ArcThreadLruBody(t) ==
  /\ pc[t].pos = "lruBody"
  /\ LET k == pc[t].key
         g == AlpGet(arc.lruPart, k, DefaultValue, FALSE)
     IN  IF pc[t].op = "put"
         THEN /\ arc' = [arc EXCEPT !.lruPart =
                           IF k \in DOMAIN @.mainCache
                           THEN AlpUpdateExistingNode(@, k, pc[t].val)
                           ELSE AlpAddNewNode(@, k, pc[t].val)]
              /\ pc' = [pc EXCEPT ![t].pos = "contain"]
         ELSE /\ arc' = [arc EXCEPT !.lruPart = g.p]
              /\ pc' = [pc EXCEPT ![t].ret = g.ret, ![t].out = g.value,
                                  ![t].pos = IF ~g.ret THEN "lfuLock"
                                             ELSE IF g.shouldTransform THEN "lfuCheck"
                                             ELSE "idle"]
  /\ held' = Unlock(held, "lruPart", t)
  /\ UNCHANGED <<lru, lfu, lruk, shards, lin, started>>
  /\ UnchangedHistory

\* bool inLfu = _lfuPart->contain(key)
ArcThreadContain(t) ==
  /\ pc[t].pos = "contain"
  /\ pc' = [pc EXCEPT ![t].pos =
              IF AfpContain(arc.lfuPart, pc[t].key) THEN "lfuCheck" ELSE "idle"]
  /\ UNCHANGED <<lru, lfu, arc, lruk, shards, held, lin, started>>
  /\ UnchangedHistory

\* Body of ArcLfuPart::put (from put, or from a get that promotes) or of
\* ArcLfuPart::get (after a miss in the LRU part), return and unlock.
ArcThreadLfuBody(t) ==
  /\ pc[t].pos = "lfuBody"
  /\ LET k == pc[t].key
         v == IF pc[t].op = "put" THEN pc[t].val ELSE pc[t].out
         g == AfpGet(arc.lfuPart, k, DefaultValue)
     IN  IF pc[t].op = "put" \/ pc[t].ret
         THEN /\ arc' = [arc EXCEPT !.lfuPart =
                           IF k \in DOMAIN @.mainCache
                           THEN AfpUpdateExistingNode(@, k, v)
                           ELSE AfpAddNewNode(@, k, v)]
              /\ pc' = [pc EXCEPT ![t].pos = "idle"]
         ELSE /\ arc' = [arc EXCEPT !.lfuPart = g.p]
              /\ pc' = [pc EXCEPT ![t].ret = g.ret, ![t].out = g.value, ![t].pos = "idle"]
  /\ held' = Unlock(held, "lfuPart", t)
  /\ UNCHANGED <<lru, lfu, lruk, shards, lin, started>>
  /\ UnchangedHistory

\* A data race is undefined behaviour: besides going on as if the accesses
\* were ordered, the racing thread may fault and never return.
ThreadRace(t) ==
  /\ \E u \in Threads : Conflict(t, u)
  /\ pc' = [pc EXCEPT ![t].pos = "crashed"]
  /\ UNCHANGED <<lru, lfu, arc, lruk, shards, held, lin, started>>
  /\ UnchangedHistory

ArcThreadStep(t) ==
  \/ ThreadCall(t)
  \/ ArcThreadCheckGhost(t)
  \/ ArcThreadDecrease(t)
  \/ ArcThreadIncrease(t)
  \/ ArcThreadCheckCapacity(t)
  \/ ArcThreadLock(t)
  \/ ArcThreadLruBody(t)
  \/ ArcThreadContain(t)
  \/ ArcThreadLfuBody(t)
  \/ ThreadRace(t)

NextThreadsArc == \E t \in Threads : ArcThreadStep(t)

SpecThreadsArc == InitARC /\ [][NextThreadsArc]_vars

\* ---------------------------------------------------------- LRU-K threads
\* LRUKCache adds no mutex: the calls on the main cache (the LRUCache base)
\* and on _historyList each lock that object's own _mutex for their duration,
\* and _historyValueMap is read and written between them with no lock.
LrukMutex(pos) == IF pos \in {"mainGet", "mainPut"} THEN "main" ELSE "history"

\* LRUCache::put returns before locking when _capacity <= 0.
NeedsLock(t) ==
  \/ pc[t].pos \in {"mainGet", "histGet", "histRemove"}
  \/ pc[t].pos = "mainPut" /\ lruk.main.capacity > 0
  \/ pc[t].pos = "histPut" /\ lruk.history.capacity > 0

Locked(t) == NeedsLock(t) => held[LrukMutex(pc[t].pos)] = t

UnchangedOthers == UNCHANGED <<lru, lfu, arc, shards, lin, started>>

\* std::lock_guard<std::mutex> lock(_mutex) in LRUCache::get / put / remove.
LrukThreadLock(t) ==
  /\ engine = "LRUK"
  /\ NeedsLock(t)
  /\ held[LrukMutex(pc[t].pos)] # t
  /\ CanLock(held, LrukMutex(pc[t].pos), t)
  /\ held' = Lock(held, LrukMutex(pc[t].pos), t)
  /\ UNCHANGED <<lruk, pc>>
  /\ UnchangedOthers
  /\ UnchangedHistory

\* LRUCache<Key, Value>::get(key, value) on the main cache.
LrukThreadMainGet(t) ==
  /\ pc[t].pos = "mainGet"
  /\ Locked(t)
  /\ LET m == LruGet(lruk.main, pc[t].key, DefaultValue)
     IN  /\ lruk' = [lruk EXCEPT !.main = m.c]
         /\ pc' = [pc EXCEPT ![t].found = m.ret, ![t].ret = m.ret, ![t].out = m.value,
                             ![t].pos = IF m.ret /\ pc[t].op = "put" THEN "mainPut"
                                        ELSE "histGet"]
  /\ held' = Unlock(held, "main", t)
  /\ UnchangedOthers
  /\ UnchangedHistory

\* size_t historyCount = _historyList->get(key); historyCount++
LrukThreadCount(t) ==
  /\ pc[t].pos = "histGet"
  /\ Locked(t)
  /\ \E g \in Garbage :
       LET h == LruGetValue(lruk.history, pc[t].key, g)
       IN  /\ lruk' = [lruk EXCEPT !.history = h.c]
           /\ pc' = [pc EXCEPT ![t].count = h.value + 1, ![t].pos = "histPut"]
  /\ held' = Unlock(held, "history", t)
  /\ UnchangedOthers
  /\ UnchangedHistory

\* _historyList->put(key, historyCount)
LrukThreadHistPut(t) ==
  /\ pc[t].pos = "histPut"
  /\ Locked(t)
  /\ lruk' = [lruk EXCEPT !.history = LruPut(@, pc[t].key, pc[t].count)]
  /\ pc' = [pc EXCEPT ![t].pos =
              IF pc[t].op = "put" THEN "store"
              ELSE IF ~pc[t].found /\ pc[t].count >= lruk.k THEN "lookup"
              ELSE "idle"]
  /\ held' = Unlock(held, "history", t)
  /\ UnchangedOthers
  /\ UnchangedHistory

\* The unlocked statements on _historyValueMap: operator[] in put, find in
\* get, erase in both.
LrukThreadStaging(t) ==
  /\ pc[t].pos \in {"store", "lookup", "erase"}
  /\ LET k == pc[t].key
         staged == k \in DOMAIN lruk.historyValueMap
     IN  CASE pc[t].pos = "store" ->
                /\ lruk' = [lruk EXCEPT !.historyValueMap = Put(@, k, pc[t].val)]
                /\ pc' = [pc EXCEPT ![t].pos =
                            IF pc[t].count >= lruk.k THEN "histRemove" ELSE "idle"]
           [] pc[t].pos = "lookup" ->
                /\ lruk' = lruk
                /\ pc' = [pc EXCEPT ![t].pos = IF staged THEN "histRemove" ELSE "idle",
                                    ![t].out = IF staged THEN lruk.historyValueMap[k]
                                               ELSE @]
           [] OTHER ->
                /\ lruk' = [lruk EXCEPT !.historyValueMap = Drop(@, k)]
                /\ pc' = [pc EXCEPT ![t].pos = "mainPut"]
  /\ UNCHANGED held
  /\ UnchangedOthers
  /\ UnchangedHistory

\* _historyList->remove(key)
LrukThreadHistRemove(t) ==
  /\ pc[t].pos = "histRemove"
  /\ Locked(t)
  /\ lruk' = [lruk EXCEPT !.history = LruRemove(@, pc[t].key)]
  /\ pc' = [pc EXCEPT ![t].pos = "erase"]
  /\ held' = Unlock(held, "history", t)
  /\ UnchangedOthers
  /\ UnchangedHistory

\* LRUCache<Key, Value>::put(key, value) on the main cache, then return.
LrukThreadMainPut(t) ==
  /\ pc[t].pos = "mainPut"
  /\ Locked(t)
  /\ lruk' = [lruk EXCEPT !.main =
                LruPut(@, pc[t].key, IF pc[t].op = "put" THEN pc[t].val ELSE pc[t].out)]
  /\ pc' = [pc EXCEPT ![t].pos = "idle"]
  /\ held' = Unlock(held, "main", t)
  /\ UnchangedOthers
  /\ UnchangedHistory

LrukThreadStep(t) ==
  \/ ThreadCall(t)
  \/ LrukThreadLock(t)
  \/ LrukThreadMainGet(t)
  \/ LrukThreadCount(t)
  \/ LrukThreadHistPut(t)
  \/ LrukThreadStaging(t)
  \/ LrukThreadHistRemove(t)
  \/ LrukThreadMainPut(t)
  \/ ThreadRace(t)

NextThreadsLruk == \E t \in Threads : LrukThreadStep(t)

SpecThreadsLruk == InitLRUK /\ [][NextThreadsLruk]_vars

\* ------------------------------------------------------------ all threads
\* The steps of thread t inside a call it has entered.
Running(t) ==
  \/ ThreadCheckCapacity(t)
  \/ ThreadLock(t)
  \/ ThreadFind(t)
  \/ ThreadApply(t)
  \/ ArcThreadCheckGhost(t)
  \/ ArcThreadDecrease(t)
  \/ ArcThreadIncrease(t)
  \/ ArcThreadCheckCapacity(t)
  \/ ArcThreadLock(t)
  \/ ArcThreadLruBody(t)
  \/ ArcThreadContain(t)
  \/ ArcThreadLfuBody(t)
  \/ LrukThreadLock(t)
  \/ LrukThreadMainGet(t)
  \/ LrukThreadCount(t)
  \/ LrukThreadHistPut(t)
  \/ LrukThreadStaging(t)
  \/ LrukThreadHistRemove(t)
  \/ LrukThreadMainPut(t)

\* One cache of each class: the LRU-based ones of capacity one (one entry per
\* shard; in the LRU-K cache a history of MaxCap keys and K = MaxK), the
\* LFU-based ones of capacity zero, whose put returns before the lock and
\* whose get and purge take it.
InitThreads ==
  /\ InitLRU \/ InitLFU \/ InitLRUK \/ InitARC \/ InitHashLRU \/ InitHashLFU
  /\ engine = "LRU" => lru.capacity = 1
  /\ engine = "LFU" => (lfu.capacity = 0 /\ lfu.maxAverageNum = MaxAvg)
  /\ engine = "ARC" => arc.capacity = 1
  /\ engine = "LRUK" =>
       (lruk.main.capacity = 1 /\ lruk.history.capacity = MaxCap /\ lruk.k = MaxK)
  /\ HasShards => /\ Len(shards) = MaxSlices
                  /\ shards[1].capacity = IF engine = "HashLRU" THEN 1 ELSE 0

NextThreadsAll == \E t \in Threads : ThreadCall(t) \/ Running(t) \/ ThreadRace(t)

\* A thread inside a call is scheduled again as long as its next statement
\* can run; a thread waiting for a mutex is not promised to win it.
SpecThreadsFair ==
  InitThreads /\ [][NextThreadsAll]_vars /\ \A t \in Threads : WF_vars(Running(t))

\* ================================================================== claims
IsLruLfu == engine \in {"LRU", "LFU"}

\* A put of a non-resident key that found the engine full.
PutNewWhenFull == last.op = "put" /\ ~last.wasIn /\ last.wasFull /\ Capacity >= 1

\* C1: in LRUCache and LFUCache the number of resident entries never exceeds
\* the capacity, and a put of a new key into a full cache evicts exactly one
\* entry and leaves the cache full with the new key resident.
C1_BoundedSize ==
  /\ Cardinality(DOMAIN lru.nodeMap) <= lru.capacity
  /\ Cardinality(DOMAIN lfu.nodeMap) <= lfu.capacity
  /\ (IsLruLfu /\ PutNewWhenFull) =>
       /\ Cardinality(last.evicted) = 1
       /\ last.key \in Resident
       /\ Cardinality(Resident) = Capacity

C1_Witness ==
  /\ engine = "LFU" /\ PutNewWhenFull /\ lfu.capacity = MaxCap
  /\ Cardinality(last.evicted) = 1

c1 == arc.lruPart.capacity

c2 == arc.lfuPart.capacity

\* The state of the two ARC parts right after the rebalance of a call on k.
Rebalanced(k) == ArcCheckGhostCaches(arc, k).a

\* C2: in ArcCache |T1| <= c1 and |T2| <= c2 in every state, and a rebalance
\* that lowers the capacity of a sub-cache holding exactly its capacity evicts
\* exactly one of its entries, which becomes the newest record of its ghost
\* list.
C2_ArcBoundedSize ==
  /\ Cardinality(T1) <= c1
  /\ Cardinality(T2) <= c2
  /\ \A k \in Keys :
       LET b == Rebalanced(k)
           g1 == b.lruPart.ghostList
           g2 == b.lfuPart.ghostList
       IN  /\ (b.lfuPart.capacity < c2 /\ Cardinality(T2) = c2) =>
                \E e \in T2 :
                  /\ DOMAIN b.lfuPart.mainCache = T2 \ {e}
                  /\ g2 # <<>> /\ g2[Len(g2)].key = e /\ g2[Len(g2)].mapped
           /\ (b.lruPart.capacity < c1 /\ Cardinality(T1) = c1) =>
                \E e \in T1 :
                  /\ DOMAIN b.lruPart.mainCache = T1 \ {e}
                  /\ g1 # <<>> /\ g1[1].key = e /\ g1[1].mapped

C2_Witness ==
  /\ engine = "ARC" /\ last.ghost = "B1" /\ last.shrunk = "T2"
  /\ c2 = arc.capacity - 1 /\ Cardinality(T2) = c2 /\ B2 # {}

\* C3: in ArcCache c1 + c2 = 2C in every state, and a call either leaves both
\* capacities alone or moves exactly one unit from one sub-cache to the other,
\* the latter only on a ghost hit.
CapacitySum == c1 + c2 = 2 * arc.capacity

CapacityStep ==
  /\ <<c1' - c1, c2' - c2>> \in {<<0, 0>>, <<1, -1>>, <<-1, 1>>}
  /\ last'.ghost = "none" => (c1' = c1 /\ c2' = c2)
  /\ c1' > c1 => last'.ghost = "B1"
  /\ c2' > c2 => last'.ghost = "B2"

Stored(k) == IF engine = "LRU" THEN lru.nodeMap[k].value ELSE lfu.nodeMap[k].value

\* The result of calling get(k, out) in the current state, for every
\* iteration order of the hash map.
GetNow(k, out) ==
  IF engine = "LRU" THEN {LruGet(lru, k, out)}
  ELSE {LfuGet(lfu, k, out, order) : order \in Orders(DOMAIN lfu.nodeMap)}

\* C4: in LRUCache and LFUCache with capacity >= 1, a get right after
\* put(k, v) returns true with v, and every get that hits returns the value
\* of the latest put of its key.
C4_ReadYourWrite ==
  IsLruLfu =>
    /\ \A k \in Resident : Stored(k) = lastPut[k]
    /\ (last.op = "get" /\ last.ret) => last.out = lastPut[last.key]
    /\ (last.op = "put" /\ Capacity >= 1) =>
         \A r \in GetNow(last.key, DefaultValue) : r.ret /\ r.value = last.val

C4_Witness ==
  /\ engine = "LFU" /\ last.op = "get" /\ last.ret
  /\ last.out = NumVals /\ Cardinality(Resident) = MaxCap

\* C5: in ArcCache with capacity >= 1, a get right after put(k, v) returns
\* true with v.
C5_ArcReadYourWrite ==
  (engine = "ARC" /\ last.op = "put" /\ arc.capacity >= 1) =>
    LET r == ArcGet(arc, last.key, DefaultValue)
    IN  r.ret /\ r.value = last.val

\* C6: with capacity 0 every engine stays in its constructed state, every put
\* changes nothing and every get returns false.
C6_CapacityZero ==
  Capacity = 0 =>
    /\ engine = "LRU" =>
         /\ lru = LruNew(0)
         /\ \A k \in Keys, v \in Values : LruPut(lru, k, v) = lru
    /\ engine = "LFU" =>
         /\ lfu = LfuNew(0, lfu.maxAverageNum)
         /\ \A k \in Keys, v \in Values : LfuPut(lfu, k, v, <<k>>) = lfu
    /\ engine = "ARC" =>
         /\ arc = ArcNew(0, DefaultTransformThreshold)
         /\ \A k \in Keys, v \in Values : ArcPut(arc, k, v) = arc
    /\ last.op = "get" => ~last.ret

C6_Witness == engine = "ARC" /\ Capacity = 0 /\ last.op = "put"

\* C7: in LRUCache and LFUCache a get changes neither the resident keys nor a
\* stored value; a get of a non-resident key returns false, leaves out as it
\* was passed and leaves the whole engine state unchanged.
MissFrame ==
  IsLruLfu =>
    \A k \in Keys \ Resident, out \in Values :
      \A r \in GetNow(k, out) :
        ~r.ret /\ r.value = out /\ r.c = (IF engine = "LRU" THEN lru ELSE lfu)

GetFrame ==
  (IsLruLfu /\ last'.op = "get") =>
    /\ Resident' = Resident
    /\ \A k \in Resident : Stored(k)' = Stored(k)
    /\ ~last'.wasIn =>
         ~last'.ret /\ last'.out = DefaultValue /\ lru' = lru /\ lfu' = lfu

C7_GetFrame == []MissFrame /\ [][GetFrame]_vars

C7_Witness ==
  /\ engine = "LFU" /\ last.op = "get" /\ ~last.wasIn /\ ~last.ret
  /\ Cardinality(Resident) = MaxCap

\* C8: in LRUCache a put of a non-resident key into a full cache evicts
\* exactly the resident key whose latest successful access is the oldest; a
\* put of a resident key updates its value, makes it the most recent and
\* evicts nothing.
LruPutStep ==
  (engine = "LRU" /\ last'.op = "put" /\ lru.capacity >= 1) =>
    /\ (~last'.wasIn /\ last'.wasFull) => last'.evicted = {Head(recency)}
    /\ last'.wasIn =>
         /\ Resident' = Resident
         /\ lru'.nodeMap[last'.key].value = last'.val
         /\ lru'.list[Len(lru'.list)] = last'.key
         /\ \A k \in Resident \ {last'.key} : lru'.nodeMap[k] = lru.nodeMap[k]
    /\ recency' = lru'.list

C8_StrictLru == [][LruPutStep]_vars

C8_Witness ==
  /\ engine = "LRU" /\ PutNewWhenFull /\ lru.capacity = MaxCap
  /\ Cardinality(last.evicted) = 1
  /\ last.evicted # {Min(last.evicted \cup Resident)}

\* The smallest frequency of a resident entry of the LFU engine.
MinResidentFreq == Min({lfu.nodeMap[k].freq : k \in DOMAIN lfu.nodeMap})

\* A step in which LFUCache::put calls kickOut.
KickOutStep ==
  /\ engine = "LFU" /\ last'.op = "put" /\ ~last'.wasIn /\ last'.wasFull
  /\ lfu.capacity >= 1

\* C9: whenever LFUCache performs an eviction, the bucket of minFreq exists
\* and is non-empty, minFreq is the smallest frequency of a resident entry,
\* and the evicted entry has that frequency.
MinFreqStep ==
  KickOutStep =>
    /\ lfu.minFreq \in DOMAIN lfu.freqToFreqList
    /\ lfu.freqToFreqList[lfu.minFreq] # <<>>
    /\ lfu.minFreq = MinResidentFreq
    /\ \E e \in Resident : last'.evicted = {e} /\ lfu.nodeMap[e].freq = MinResidentFreq

C9_MinFreq == [][MinFreqStep]_vars

C9_Witness ==
  /\ engine = "LFU" /\ PutNewWhenFull /\ lfu.capacity = MaxCap
  /\ Cardinality(last.evicted) = 1
  /\ \E k \in Resident : lfu.nodeMap[k].freq >= 3

\* C10: whenever LFUCache performs an eviction, the evicted entry is the
\* least recently accessed of the resident entries of minimum frequency.
TieBreakStep ==
  KickOutStep =>
    last'.evicted =
      {Head(SelectSeq(recency, LAMBDA k : lfu.nodeMap[k].freq = MinResidentFreq))}

C10_TieBreakLru == [][TieBreakStep]_vars

\* C11: in LRUKCache a key is resident in the main cache only if at least K
\* put/get calls have been made on it.
C11_LrukAdmission ==
  engine = "LRUK" => \A k \in DOMAIN lruk.main.nodeMap : callsOn[k] >= lruk.k

\* A sequence without repeated elements.
NoDuplicates(s) == \A i, j \in 1 .. Len(s) : i # j => s[i] # s[j]

\* The buckets of the LFU engine that link key k.
BucketsOf(k) == {f \in DOMAIN lfu.freqToFreqList : k \in Range(lfu.freqToFreqList[f])}

\* C12: in LRUCache the keys of _nodeMap are exactly the keys linked between
\* the sentinels, each once; in LFUCache every key of _nodeMap is linked in
\* exactly the bucket of its freq, once, and buckets link no other key.
C12_IndexConsistency ==
  /\ DOMAIN lru.nodeMap = Range(lru.list)
  /\ NoDuplicates(lru.list)
  /\ \A k \in DOMAIN lfu.nodeMap : BucketsOf(k) = {lfu.nodeMap[k].freq}
  /\ \A f \in DOMAIN lfu.freqToFreqList :
       /\ Range(lfu.freqToFreqList[f]) \subseteq DOMAIN lfu.nodeMap
       /\ NoDuplicates(lfu.freqToFreqList[f])

C12_Witness ==
  /\ engine = "LRU" /\ last.op = "remove" /\ last.wasIn
  /\ Resident # {} /\ last.key \notin Range(lru.list)

\* The keys of the nodes linked in a ghost list, as a sequence.
LinkedKeys(g) == [i \in 1 .. Len(g) |-> g[i].key]

\* C13: in ArcCache the key set of the hash map of each of T1, B1 and B2
\* equals the keys of the nodes linked in its list, each key linked once.
C13_ArcIndexConsistency ==
  /\ T1 = Range(arc.lruPart.mainList) /\ NoDuplicates(arc.lruPart.mainList)
  /\ B1 = Range(LinkedKeys(arc.lruPart.ghostList))
  /\ NoDuplicates(LinkedKeys(arc.lruPart.ghostList))
  /\ B2 = Range(LinkedKeys(arc.lfuPart.ghostList))
  /\ NoDuplicates(LinkedKeys(arc.lfuPart.ghostList))

IsSharded == engine \in {"HashLRU", "HashLFU"}

\* C14: in HashLRUCache and HashLFUCache with total capacity C and N shards
\* every shard holds at most ceil(C/N) entries, a key is held only by the
\* shard its hash selects, and at most N * ceil(C/N) entries are resident.
C14_ShardedBound ==
  IsSharded =>
    \E C \in 0 .. HashMaxCap :
      LET N == Len(shards)
      IN  /\ \A i \in 1 .. N :
                /\ shards[i].capacity = CeilDiv(C, N)
                /\ Cardinality(DOMAIN shards[i].nodeMap) <= CeilDiv(C, N)
                /\ \A k \in DOMAIN shards[i].nodeMap : SliceIndex(k, N) = i
          /\ Cardinality(Resident) <= N * CeilDiv(C, N)

C14_Witness ==
  /\ engine = "HashLRU" /\ Len(shards) = MaxSlices
  /\ last.op = "put" /\ last.evicted # {} /\ Cardinality(Resident) = MaxSlices

\* A step that is a get hit of the LFU engine.
LfuHitStep == engine = "LFU" /\ last'.op = "get" /\ last'.ret

\* C18 as stated: a get hit in LFUCache leaves the key resident with a
\* frequency not lower than before the call.
MonotoneStep ==
  LfuHitStep =>
    /\ last'.key \in DOMAIN lfu'.nodeMap
    /\ lfu'.nodeMap[last'.key].freq >= lfu.nodeMap[last'.key].freq

CounterStep ==
  LfuHitStep =>
    LET k == last'.key
        f == lfu.nodeMap[k].freq
        half == lfu.maxAverageNum \div 2
        ages == IntDivSize(lfu.curTotalNum + 1, Cardinality(DOMAIN lfu.nodeMap))
                  > lfu.maxAverageNum
    IN  /\ k \in DOMAIN lfu'.nodeMap
        /\ lfu'.nodeMap[k].freq =
             IF ages THEN (IF f + 1 - half < 1 THEN 1 ELSE f + 1 - half) ELSE f + 1
        /\ lfu.maxAverageNum <= 3 => lfu'.nodeMap[k].freq >= f

C19_GhostReadmission ==
  (engine = "ARC" /\ last.ghost = "B1") => (last.key \notin B1 /\ last.key \in T1)

\* A thread between the lookup and the return of a locked method.
InCritical(t) == pc[t].pos \in {"find", "apply"}

Quiescent == \A t \in Threads : ~InCritical(t)

\* C15: with threads calling put / get / remove / purge on one LRUCache or
\* one LFUCache, a thread reads or writes the engine's mutable state only
\* while it owns the engine's mutex; whenever no thread is inside a method
\* body the engine state is the one obtained by running the calls alone, one
\* after another in the order in which they took the mutex; every finished
\* call returned what it returns in that sequential run; and the size bound
\* and the agreement of map and lists hold.
C15_Linearizable ==
  (IsLruLfu /\ started > 0) =>
    /\ \A t \in Threads : InCritical(t) => held[MutexOf(t)] = t
    /\ Quiescent => (lru = lin.lru /\ lfu = lin.lfu)
    /\ \A t \in Threads :
         pc[t].pos = "idle" => (pc[t].ret = pc[t].expRet /\ pc[t].out = pc[t].expOut)
    /\ Cardinality(DOMAIN lru.nodeMap) <= lru.capacity
    /\ Cardinality(DOMAIN lfu.nodeMap) <= lfu.capacity
    /\ C12_IndexConsistency

\* Two calls contend: a get that found its key is about to refresh it under
\* the mutex while a put of another thread waits for the mutex after a third
\* call has completed.
C15_Witness ==
  /\ IsLruLfu
  /\ started = MaxCalls
  /\ \E t, u \in Threads :
       /\ pc[t].pos = "apply" /\ pc[t].op = "get" /\ pc[t].found
       /\ held[MutexOf(t)] = t
       /\ pc[u].pos = "lock" /\ pc[u].op = "put"
       /\ Cardinality(Resident) = Capacity

\* C16: with threads calling ArcCache::put / get, no two threads are ever
\* about to access the same member of a part (resident map and list, ghost
\* map and list, capacity counter) with one of them writing it and no mutex
\* ordering the two accesses, and no thread faults.
C16_ArcLocking ==
  engine = "ARC" =>
    /\ \A t, u \in Threads : ~Conflict(t, u)
    /\ \A t \in Threads : pc[t].pos # "crashed"

\* C17: with threads calling LRUKCache::put / get, _historyValueMap is never
\* about to be accessed by two threads at once with one of them writing, no
\* thread faults, and a thread about to write back an incremented history
\* count of a key still recorded in _historyList finds there the count it
\* read, so that no other thread's increment of that key is overwritten.
C17_LrukAtomic ==
  engine = "LRUK" =>
    /\ \A t, u \in Threads : ~Conflict(t, u)
    /\ \A t \in Threads : pc[t].pos # "crashed"
    /\ \A t \in Threads :
         (pc[t].pos = "histPut" /\ pc[t].key \in DOMAIN lruk.history.nodeMap) =>
           lruk.history.nodeMap[pc[t].key].value = pc[t].count - 1

\* The mutexes thread t owns.
HeldBy(t) == {m \in Mutexes : held[m] = t}

LockDiscipline ==
  \A t \in Threads :
    /\ Cardinality(HeldBy(t)) <= 1
    /\ pc[t].pos = "idle" => HeldBy(t) = {}

\* C20: with threads calling one LRUCache, LFUCache, LRUKCache, ArcCache,
\* HashLRUCache or HashLFUCache, no thread ever owns two mutexes at once or
\* is outside a call while owning one, and under fair scheduling every call
\* a thread has entered eventually returns.
C20_RunToCompletion ==
  /\ []LockDiscipline
  /\ \A t \in Threads : (pc[t].pos # "idle") ~> (pc[t].pos = "idle")

\* C21: in ArcCache the rebalance that opens every put(k, v) and get(k) does
\* the following.  If k is recorded in B1, k leaves B1 and (c1, c2) becomes
\* (c1 + 1, c2 - 1) when c2 > 0 and stays when c2 = 0.  Otherwise, if k is
\* recorded in B2, k leaves B2 and (c1, c2) becomes (c1 - 1, c2 + 1) when
\* c1 > 0 and stays when c1 = 0.  If k is in neither ghost list the rebalance
\* changes nothing.  The rest of the call changes no capacity.
RebalanceRule ==
  engine = "ARC" =>
    \A k \in Keys :
      LET b == Rebalanced(k)
          d1 == b.lruPart.capacity
          d2 == b.lfuPart.capacity
      IN  /\ k \in B1 =>
               /\ GhostKeys(b.lruPart.ghostList) = B1 \ {k}
               /\ <<d1, d2>> = IF c2 > 0 THEN <<c1 + 1, c2 - 1>> ELSE <<c1, c2>>
          /\ (k \notin B1 /\ k \in B2) =>
               /\ GhostKeys(b.lfuPart.ghostList) = B2 \ {k}
               /\ <<d1, d2>> = IF c1 > 0 THEN <<c1 - 1, c2 + 1>> ELSE <<c1, c2>>
          /\ (k \notin B1 /\ k \notin B2) => b = arc

RebalanceStep ==
  (engine = "ARC" /\ last'.op \in {"put", "get"}) =>
    LET b == Rebalanced(last'.key)
    IN  c1' = b.lruPart.capacity /\ c2' = b.lfuPart.capacity

C21_GhostRebalance == []RebalanceRule /\ [][RebalanceStep]_vars

\* A get of a key recorded in B1 was refused the transfer: T1 holds 2C
\* entries after a get, so T2 had no capacity left to give.
C21_Witness ==
  /\ engine = "ARC" /\ last.op = "get" /\ last.ghost = "B1"
  /\ c2 = 0 /\ Cardinality(T1) = 2 * arc.capacity /\ arc.capacity >= 1

\* C22: in ArcCache the capacity bound of each ghost list equals the current
\* capacity of its sub-cache, and B1 holds at most c1 and B2 at most c2 keys.
C22_GhostCapacityTracks ==
  engine = "ARC" =>
    /\ arc.lruPart.ghostCapacity = c1
    /\ arc.lfuPart.ghostCapacity = c2
    /\ Cardinality(B1) <= c1
    /\ Cardinality(B2) <= c2

\* A step that is an ArcCache::get finding its key in T1 (after the rebalance
\* that opens the call).
T1HitStep ==
  /\ engine = "ARC" /\ last'.op = "get"
  /\ last'.key \in DOMAIN Rebalanced(last'.key).lruPart.mainCache

\* C23: an ArcCache::get(k) that finds k in T1 makes k the most recent entry
\* of T1 and raises its T1 access count by one.  If the raised count is at
\* least transformThreshold, k is put into T2 with its T1 value (a new T2
\* entry of count 1, or its T2 count raised by one) and is resident in T2
\* whenever c2 >= 1; if it is lower, T2 is left untouched.  In both cases T1
\* keeps the same keys and values, and the call returns true with T1's value.
PromotionStep ==
  T1HitStep =>
    LET k == last'.key
        b == Rebalanced(k)
        old == b.lruPart.mainCache[k]
        promoted == old.accessCount + 1 >= arc.transformThreshold
        t2 == arc'.lfuPart.mainCache
    IN  /\ Head(arc'.lruPart.mainList) = k
        /\ arc'.lruPart.mainCache =
             [b.lruPart.mainCache EXCEPT ![k].accessCount = old.accessCount + 1]
        /\ last'.ret /\ last'.out = old.value
        /\ (promoted /\ b.lfuPart.capacity >= 1) =>
             /\ k \in DOMAIN t2
             /\ t2[k].value = old.value
             /\ t2[k].accessCount =
                  IF k \in DOMAIN b.lfuPart.mainCache
                  THEN b.lfuPart.mainCache[k].accessCount + 1 ELSE 1
        /\ (~promoted \/ b.lfuPart.capacity = 0) => arc'.lfuPart = b.lfuPart

ArcGetKeepsStep ==
  (engine = "ARC" /\ last'.op = "get" /\ last'.ret) => Resident \subseteq Resident'

C24_ArcGetMembership == [][ArcGetKeepsStep]_vars

\* C25: in ArcCache a key resident in both T1 and T2 has the same value in
\* both, every resident entry holds the value of the latest put of its key,
\* and a get that hits returns that value.
C25_ArcCopyCoherence ==
  engine = "ARC" =>
    /\ \A k \in T1 \cap T2 :
         arc.lruPart.mainCache[k].value = arc.lfuPart.mainCache[k].value
    /\ \A k \in T1 : arc.lruPart.mainCache[k].value = lastPut[k]
    /\ \A k \in T2 : arc.lfuPart.mainCache[k].value = lastPut[k]
    /\ (last.op = "get" /\ last.ret) => last.out = lastPut[last.key]

\* A put has just written its value to both copies of a key resident in T1
\* and T2, in a cache that is given more than one value.
C25_Witness ==
  /\ engine = "ARC" /\ last.op = "put" /\ last.wasIn
  /\ arc.capacity < ArcMaxCap
  /\ last.key \in T1 \cap T2
  /\ arc.lruPart.mainCache[last.key].value = 1
  /\ arc.lfuPart.mainCache[last.key].value = 1
  /\ arc.lfuPart.mainCache[last.key].accessCount >= 2

\* The ArcLruPart states in which the next call evicts from T1: a put of a
\* key absent from a full T1, or a B2 hit that shrinks a full T1.
T1Evictions ==
  {Rebalanced(k).lruPart :
     k \in {j \in Keys :
              LET p == Rebalanced(j).lruPart
              IN  /\ p.capacity # 0 /\ j \notin DOMAIN p.mainCache
                  /\ Cardinality(DOMAIN p.mainCache) >= p.capacity}}
  \cup {arc.lruPart : k \in {j \in B2 \ B1 : c1 > 0 /\ Cardinality(T1) = c1}}

\* The ArcLfuPart states in which the next call evicts from T2: a get that
\* promotes a key absent from a full T2, or a B1 hit that shrinks a full T2.
T2Evictions ==
  {Rebalanced(k).lfuPart :
     k \in {j \in Keys :
              LET b == Rebalanced(j)
                  p == b.lfuPart
              IN  /\ j \in DOMAIN b.lruPart.mainCache
                  /\ b.lruPart.mainCache[j].accessCount + 1 >= arc.transformThreshold
                  /\ p.capacity # 0 /\ j \notin DOMAIN p.mainCache
                  /\ Cardinality(DOMAIN p.mainCache) >= p.capacity}}
  \cup {arc.lfuPart : k \in {j \in B1 : c2 > 0 /\ Cardinality(T2) = c2}}

\* The mapped nodes of a ghost list, in list order.
Records(g) == SelectSeq(g, LAMBDA n : n.mapped)

\* The ghost keys after the eviction of key e when the list held the keys
\* old and oldest was its oldest record.
AfterEviction(old, oldest, e) ==
  IF Cardinality(old) >= arc.capacity THEN (old \ {oldest}) \cup {e} ELSE old \cup {e}

EvictsIntoB1(p) ==
  LET q == AlpEvictLeastRecent(p)
      gone == DOMAIN p.mainCache \ DOMAIN q.mainCache
      old == Records(p.ghostList)
      new == Records(q.ghostList)
  IN  /\ Cardinality(gone) = 1
      /\ new # <<>> /\ Head(new).key \in gone /\ Head(new).accessCount = 1
      /\ GhostKeys(q.ghostList) =
           AfterEviction(GhostKeys(p.ghostList),
                         IF old = <<>> THEN DefaultKey ELSE old[Len(old)].key,
                         Head(new).key)

EvictsIntoB2(p) ==
  LET q == AfpEvictLeastFrequent(p)
      gone == DOMAIN p.mainCache \ DOMAIN q.mainCache
      old == Records(p.ghostList)
      new == Records(q.ghostList)
  IN  /\ Cardinality(gone) = 1
      /\ new # <<>> /\ new[Len(new)].key \in gone /\ new[Len(new)].accessCount = 1
      /\ GhostKeys(q.ghostList) =
           AfterEviction(GhostKeys(p.ghostList),
                         IF old = <<>> THEN DefaultKey ELSE Head(old).key,
                         new[Len(new)].key)

\* C26: whenever T1 (T2) evicts a key, the key becomes the newest record of
\* B1 (B2) with access count 1; when the ghost list already held C records,
\* exactly its oldest record is discarded first, otherwise none is; and each
\* ghost list holds at most C keys.
C26_GhostEviction ==
  engine = "ARC" =>
    /\ \A p \in T1Evictions : EvictsIntoB1(p)
    /\ \A p \in T2Evictions : EvictsIntoB2(p)
    /\ Cardinality(B1) <= arc.capacity
    /\ Cardinality(B2) <= arc.capacity

\* C27: in ArcCache no key is resident in T1 and recorded in B1 at the same
\* time, and no key is resident in T2 and recorded in B2 at the same time.
C27_ResidentGhostDisjoint ==
  engine = "ARC" => (T1 \cap B1 = {} /\ T2 \cap B2 = {})

\* The victim of the eviction ArcLfuPart performs in state p.
T2Victim(p) ==
  CHOOSE e \in DOMAIN p.mainCache :
    e \notin DOMAIN AfpEvictLeastFrequent(p).mainCache

\* C28: whenever ArcLfuPart evicts, exactly one entry leaves T2; it has the
\* smallest access count of T2's entries and, among the entries with that
\* count, is the one that entered its frequency level first.
LeastFrequentOldest(p) ==
  LET counts == {p.mainCache[x].accessCount : x \in DOMAIN p.mainCache}
      order == SelectSeq(recency, LAMBDA x : x \in DOMAIN p.mainCache)
      lowest == SelectSeq(order, LAMBDA x : p.mainCache[x].accessCount = Min(counts))
  IN  /\ Cardinality(DOMAIN p.mainCache \ DOMAIN AfpEvictLeastFrequent(p).mainCache) = 1
      /\ p.mainCache[T2Victim(p)].accessCount = Min(counts)
      /\ T2Victim(p) = Head(lowest)

C28_T2Victim == engine = "ARC" => \A p \in T2Evictions : LeastFrequentOldest(p)

\* A step that is a put, or a get hit, of an LFUCache of capacity >= 1.
LfuAccessStep ==
  /\ engine = "LFU" /\ lfu.capacity >= 1
  /\ last'.op = "put" \/ (last'.op = "get" /\ last'.ret)

\* The frequency the accessed key k has when the call updates the average:
\* one more than before on a hit, 1 for a new entry.
AccessedFreq(k) == IF k \in DOMAIN lfu.nodeMap THEN lfu.nodeMap[k].freq + 1 ELSE 1

\* The running total and the entry count the call divides: the total is one
\* more than before, less the frequency of the entry a put evicted.
AccessTotal ==
  LET gone == last'.evicted
  IN  lfu.curTotalNum + 1
        - (IF gone = {} THEN 0 ELSE lfu.nodeMap[CHOOSE e \in gone : TRUE].freq)

AccessSize == Cardinality((DOMAIN lfu.nodeMap \ last'.evicted) \cup {last'.key})

AverageExceeded == IntDivSize(AccessTotal, AccessSize) > lfu.maxAverageNum

\* max(1, f - floor(m / 2)).
Aged(f, m) == IF f - (m \div 2) < 1 THEN 1 ELSE f - (m \div 2)

\* C29: when, after a put or a get hit in LFUCache, the integer average
\* totalFreq / size exceeds maxAverage, every resident entry's frequency f
\* becomes max(1, f - floor(maxAverage / 2)), every entry is linked in exactly
\* the bucket of its new frequency, the resident keys and their values are
\* those the call had before the ageing, and minFreq is the smallest
\* frequency of a resident entry.
AgeingStep ==
  (LfuAccessStep /\ AverageExceeded) =>
    LET k == last'.key
        keys == (DOMAIN lfu.nodeMap \ last'.evicted) \cup {k}
    IN  /\ DOMAIN lfu'.nodeMap = keys
        /\ \A x \in keys :
             /\ lfu'.nodeMap[x].freq =
                  Aged(IF x = k THEN AccessedFreq(k) ELSE lfu.nodeMap[x].freq,
                       lfu.maxAverageNum)
             /\ lfu'.nodeMap[x].value =
                  IF x = k /\ last'.op = "put" THEN last'.val ELSE lfu.nodeMap[x].value
             /\ BucketsOf(x)' = {lfu'.nodeMap[x].freq}
        /\ \A f \in DOMAIN lfu'.freqToFreqList :
             /\ Range(lfu'.freqToFreqList[f]) \subseteq keys
             /\ NoDuplicates(lfu'.freqToFreqList[f])
        /\ lfu'.minFreq = MinResidentFreq'

C30_FrequencyBound ==
  (engine = "LFU" /\ lfu.capacity >= 1 /\ lfu.maxAverageNum >= 2) =>
    \A k \in DOMAIN lfu.nodeMap :
      lfu.nodeMap[k].freq <= (lfu.maxAverageNum + 1) * lfu.capacity

\* The sum of the frequencies of the resident entries with keys in S.
RECURSIVE SumFreq(_)
SumFreq(S) ==
  IF S = {} THEN 0
  ELSE LET k == CHOOSE x \in S : TRUE
       IN  lfu.nodeMap[k].freq + SumFreq(S \ {k})

\* C31: in LFUCache, after every put or get the running total _curTotalNum
\* equals the sum of the frequencies of the resident entries, and is never
\* negative.
C31_RunningTotal ==
  (engine = "LFU" /\ last.op \in {"put", "get"}) =>
    /\ lfu.curTotalNum = SumFreq(DOMAIN lfu.nodeMap)
    /\ lfu.curTotalNum >= 0

\* The resident keys of an LFU engine with their values.
Entries(c) == [k \in DOMAIN c.nodeMap |-> c.nodeMap[k].value]

\* C32: after purge() no key is resident in LFUCache, and from then on the
\* engine answers every put/get like a freshly constructed engine given the
\* same calls: the two hold the same keys with the same values after every
\* call, so hits, returned values and evicted keys are the same.
C32_PurgeResets ==
  engine = "LFU" =>
    /\ last.op = "purge" => DOMAIN lfu.nodeMap = {}
    /\ Entries(lfu) = Entries(lin.lfu)

\* A put or get step of an LRUKCache with a main cache of capacity >= 1 on a
\* key that is not resident in main.
LrukOutsideStep(op) ==
  /\ engine = "LRUK" /\ last'.op = op
  /\ lruk.main.capacity >= 1
  /\ last'.key \notin DOMAIN lruk.main.nodeMap

\* Key k has entered main with value v and has no history or staging record.
Promoted(k, v) ==
  /\ k \in DOMAIN lruk'.main.nodeMap /\ lruk'.main.nodeMap[k].value = v
  /\ k \notin DOMAIN lruk'.history.nodeMap
  /\ k \notin DOMAIN lruk'.historyValueMap

\* Key k stayed outside main: main is as before and a history record of k,
\* if the history kept one, is below K.
NotAdmitted(k) ==
  /\ lruk'.main = lruk.main
  /\ k \in DOMAIN lruk'.history.nodeMap => lruk'.history.nodeMap[k].value < lruk.k

\* The history count the call reaches when k has a history record.
CountReached(k) == lruk.history.nodeMap[k].value + 1

\* C33: in an LRUKCache whose main cache has capacity >= 1 (a main cache of
\* capacity 0 admits nothing), a put(k, v) that brings k's history count to
\* K or more moves k into main with value v; a get(k) that does so while a value is staged moves k
\* into main with the value of the latest put(k, .) and returns it; both
\* delete k's history and staging records; a get that reaches K with no
\* staged value returns a miss and admits nothing.
PromotionOnPut ==
  LrukOutsideStep("put") =>
    LET k == last'.key
        v == last'.val
    IN  /\ \/ Promoted(k, v)
           \/ /\ NotAdmitted(k)
              /\ k \in DOMAIN lruk'.historyValueMap /\ lruk'.historyValueMap[k] = v
        /\ k \in DOMAIN lruk.history.nodeMap =>
             (CountReached(k) >= lruk.k <=> Promoted(k, v))

PromotionOnGet ==
  LrukOutsideStep("get") =>
    LET k == last'.key
        staged == k \in DOMAIN lruk.historyValueMap
    IN  /\ staged =>
             \/ /\ Promoted(k, lruk.historyValueMap[k])
                /\ lruk.historyValueMap[k] = lastPut[k]
                /\ last'.out = lastPut[k]
             \/ /\ NotAdmitted(k)
                /\ lruk'.historyValueMap = lruk.historyValueMap
                /\ last'.out = DefaultValue
        /\ (staged /\ k \in DOMAIN lruk.history.nodeMap) =>
             (CountReached(k) >= lruk.k <=> k \in DOMAIN lruk'.main.nodeMap)
        /\ ~staged =>
             /\ lruk'.main = lruk.main
             /\ lruk'.historyValueMap = lruk.historyValueMap
             /\ last'.out = DefaultValue

LrukMainHitStep ==
  /\ engine = "LRUK" /\ last'.op \in {"put", "get"}
  /\ last'.key \in DOMAIN lruk.main.nodeMap

\* C34: in LRUKCache a get(k) or put(k, .) on a key resident in main changes
\* no history count and no staging record, and a key resident in main has no
\* history record.
MainHitFrame ==
  LrukMainHitStep =>
    /\ lruk'.history.nodeMap = lruk.history.nodeMap
    /\ lruk'.historyValueMap = lruk.historyValueMap

NoHistoryInMain ==
  engine = "LRUK" => DOMAIN lruk.main.nodeMap \cap DOMAIN lruk.history.nodeMap = {}

C34_MainHitLeavesHistory == []NoHistoryInMain /\ [][MainHitFrame]_vars

\* C35: in every reachable state of LRUKCache every key of the staging map
\* _historyValueMap has a record in the history LRU, so the staging map never
\* holds more than historyCapacity entries.
C35_StagingBounded ==
  engine = "LRUK" =>
    /\ DOMAIN lruk.historyValueMap \subseteq DOMAIN lruk.history.nodeMap
    /\ Cardinality(DOMAIN lruk.historyValueMap) <= lruk.history.capacity

\* A put or get step of a sharded cache.
ShardedCallStep == IsSharded /\ last'.op \in {"put", "get"}

\* The shard the call on last'.key is routed to.
Routed == SliceIndex(last'.key, Len(shards))

\* The call, run on shard s of the wrapper, gives shard t.
RunOnShard(s, t) ==
  LET k == last'.key
  IN  CASE engine = "HashLRU" /\ last'.op = "put" -> t = LruPut(s, k, last'.val)
        [] engine = "HashLRU" /\ last'.op = "get" -> t = LruGet(s, k, DefaultValue).c
        [] engine = "HashLFU" /\ last'.op = "put" ->
             \E order \in Orders(DOMAIN s.nodeMap \cup {k}) : t = LfuPut(s, k, last'.val, order)
        [] OTHER ->
             \E order \in Orders(DOMAIN s.nodeMap) : t = LfuGet(s, k, DefaultValue, order).c

\* C36: in HashLRUCache and HashLFUCache with N shards every put/get on key k
\* is executed on shard hash(k) mod N and on no other: every other shard is
\* unchanged, the number of shards never changes, a get hits exactly when
\* that shard holds k and returns the value held there, and a put into a
\* shard of capacity >= 1 leaves k there with the value put.
ShardIsolationStep ==
  ShardedCallStep =>
    LET k == last'.key
        N == Len(shards)
    IN  /\ Len(shards') = N
        /\ \A i \in 1 .. N : i # Routed => shards'[i] = shards[i]
        /\ RunOnShard(shards[Routed], shards'[Routed])
        /\ last'.op = "get" =>
             /\ last'.ret = (k \in DOMAIN shards[Routed].nodeMap)
             /\ last'.ret => last'.out = shards[Routed].nodeMap[k].value
        /\ (last'.op = "put" /\ shards[Routed].capacity >= 1) =>
             /\ k \in DOMAIN shards'[Routed].nodeMap
             /\ shards'[Routed].nodeMap[k].value = last'.val

C36_ShardIsolation == [][ShardIsolationStep]_vars

C36_Witness ==
  /\ engine = "HashLFU" /\ Len(shards) = MaxSlices
  /\ last.op = "get" /\ last.ret
  /\ SliceIndex(last.key, MaxSlices) = MaxSlices
  /\ shards[MaxSlices].nodeMap[last.key].freq >= 2
  /\ \E i \in 1 .. MaxSlices - 1 : DOMAIN shards[i].nodeMap # {}

\* A step that is a get hit of LRUCache.
LruHitStep == engine = "LRU" /\ last'.op = "get" /\ last'.key \in DOMAIN lru.nodeMap

\* C37: in LRUCache a get(k) that hits moves k to the fresh end, writes the
\* value to the out-parameter, returns true and increments k's access
\* counter by exactly one.
GetBookkeepingStep ==
  LruHitStep =>
    LET k == last'.key
    IN  /\ lru'.list = Append(Without(lru.list, k), k)
        /\ last'.ret /\ last'.out = lru.nodeMap[k].value
        /\ lru'.nodeMap[k].value = lru.nodeMap[k].value
        /\ lru'.nodeMap[k].accessCount = lru.nodeMap[k].accessCount + 1

C37_LruGetBookkeeping == [][GetBookkeepingStep]_vars

====
